---- MODULE Spec2Model ----
(***************************************************************************)
(* Model of the end-to-end encrypted chat: the client's crypto functions   *)
(* and flows (register, login, startChat, loadMessages, sendMessage) and   *)
(* the relaying server (REST handlers and socket handlers).                *)
(*                                                                         *)
(* Library primitives the code calls are modelled by their contract:      *)
(*   - Curve25519 scalar multiplication is exponentiation in the group    *)
(*     of units modulo GroupP with generator Gen;                          *)
(*   - nacl.secretbox is an authenticated box: it opens only under the    *)
(*     key and nonce it was made with and only if no bit was changed;     *)
(*   - PBKDF2 is a collision-free function of (password, salt, params);   *)
(*   - base64 / UTF-8 conversions are typed wrappers, so that a value     *)
(*     that was not encoded cannot be decoded.                            *)
(* Every value that travels is a record with a type tag t.                 *)
(***************************************************************************)
EXTENDS Integers, Sequences, FiniteSets, TLC

\* ------------------------------------------------------------------ bounds
MaxScalar == 3
MaxRand == 2
MaxCounter == 2
MaxMsgs == 2
MaxSendRand == 1
\* the page size loadMessages asks for (const limit = 20), scaled down
PageLimit == 1
\* grants one chat may hold before further POST /api/chat/:chatId/key
\* requests are left out
MaxGrants == 3
\* send_message events waiting at the server when a page walk begins
MaxPending == 4

\* ------------------------------------------------- program/library constants
GroupP == 11
Gen == 2
PBKDF2_ITERATIONS == 600000
NONCE_COUNTER_BYTES == 8
BYTE == 256

Scalars == 1..MaxScalar
Rands == 1..MaxRand
\* the random parts the nonce of a sent message is drawn from
SendRands == 1..MaxSendRand

Null == [t |-> "null"]
Err(msg) == [t |-> "err", msg |-> msg]
IsErr(x) == x.t = "err"

\* ------------------------------------------------------------ conversions
\* naclUtil.encodeBase64: bytes -> text
EncodeBase64(bytes) == [t |-> "b64", b |-> bytes]
\* naclUtil.decodeBase64: text -> bytes, throws on text that is not base64
DecodeBase64(text) ==
    IF text.t = "b64" THEN text.b ELSE Err("invalid encoding")
\* naclUtil.decodeUTF8: string -> bytes
DecodeUTF8(str) == [t |-> "utf8", s |-> str]
\* naclUtil.encodeUTF8: bytes -> string, throws on bytes that are not UTF-8
EncodeUTF8(bytes) ==
    IF bytes.t = "utf8" THEN bytes.s ELSE Err("URI malformed")

\* ------------------------------------------------------------- primitives
RECURSIVE ModExp(_, _, _)
ModExp(b, e, m) == IF e = 0 THEN 1 % m ELSE (b * ModExp(b, e - 1, m)) % m

SecretOf(s) == [t |-> "sk", v |-> s]
\* crypto_scalarmult_base
PublicOf(sk) == [t |-> "pk", v |-> ModExp(Gen, sk.v, GroupP)]
\* nacl.box.keyPair() for the random scalar s
BoxKeyPair(s) == [publicKey |-> PublicOf(SecretOf(s)), secretKey |-> SecretOf(s)]

\* nacl.box.before(theirPublicKey, mySecretKey)
BoxBefore(pk, sk) ==
    IF pk.t \in {"pk", "sk"} /\ sk.t \in {"pk", "sk"}
    THEN [t |-> "dhkey", v |-> ModExp(pk.v, sk.v, GroupP)]
    ELSE Err("bad key size")

\* nacl.secretbox(msg, nonce, key)
SecretBox(msg, nonce, key) ==
    [t |-> "sbox", m |-> msg, n |-> nonce, k |-> key, x |-> 0]
\* nacl.secretbox.open(box, nonce, key): null when authentication fails
SecretBoxOpen(box, nonce, key) ==
    IF box.t = "sbox" /\ box.x = 0 /\ box.n = nonce /\ box.k = key
    THEN box.m
    ELSE Null
\* nacl.box = secretbox under box.before
Box(msg, nonce, pk, sk) == SecretBox(msg, nonce, BoxBefore(pk, sk))
BoxOpen(box, nonce, pk, sk) == SecretBoxOpen(box, nonce, BoxBefore(pk, sk))

\* nacl.randomBytes(n) for the random draw r
RandomBytes(n, r) == [t |-> "rnd", len |-> n, v |-> r]

\* crypto.subtle PBKDF2 deriveBits(256)
Pbkdf2(password, salt, iterations, hash) ==
    [t |-> "mkey", pw |-> password, salt |-> salt, it |-> iterations, h |-> hash]

\* ------------------------------------------------- crypto functions (App.jsx)
generateKeyPair(s) ==
    [publicKey |-> EncodeBase64(BoxKeyPair(s).publicKey),
     secretKey |-> EncodeBase64(BoxKeyPair(s).secretKey)]

\* A JavaScript number holding a non-negative integer, written as its base-256
\* digits, lowest first (counters range up to 2^53 - 1 and beyond, past the
\* integers TLC computes with); Num(n) is the number with the value n
RECURSIVE Num(_)
Num(n) == IF n = 0 THEN <<>> ELSE <<n % BYTE>> \o Num(n \div BYTE)

\* the digit of weight BYTE^(k-1)
Digit(c, k) == IF k <= Len(c) THEN c[k] ELSE 0

\* ToInt32 of the operands of &: the low 32 bits
ToInt32(c) == [k \in 1..4 |-> Digit(c, k)]

\* c & 0xff
AndFF(c) == ToInt32(c)[1]

\* Math.floor(c / 256): the quotient by a power of two is exact
FloorDiv256(c) == IF c = <<>> THEN <<>> ELSE Tail(c)

\* the for loop of createNonce: counterBytes[i] = c & 0xff; c = floor(c / 256)
RECURSIVE CounterBytes(_, _)
CounterBytes(c, i) ==
    IF i = 0 THEN <<>> ELSE Append(CounterBytes(FloorDiv256(c), i - 1), AndFF(c))

\* createNonce with the counter pushed through 32-bit integer arithmetic
createNonce_int32(counter, r) ==
    [t |-> "nonce", rand |-> RandomBytes(16, r),
     ctr |-> CounterBytes(ToInt32(counter), NONCE_COUNTER_BYTES)]

createNonce(counter, r) ==
    [t |-> "nonce", rand |-> RandomBytes(16, r),
     ctr |-> CounterBytes(counter, NONCE_COUNTER_BYTES)]

generateSharedKey(r) == RandomBytes(32, r)

deriveSharedKey_ownKey(theirPublicKey, mySecretKey) ==
    BoxBefore(PublicOf(DecodeBase64(mySecretKey)), DecodeBase64(mySecretKey))

deriveSharedKey_swapped(theirPublicKey, mySecretKey) ==
    BoxBefore(DecodeBase64(mySecretKey), DecodeBase64(theirPublicKey))

deriveSharedKey(theirPublicKey, mySecretKey) ==
    BoxBefore(DecodeBase64(theirPublicKey), DecodeBase64(mySecretKey))

encryptSharedKey(sharedKeyBytes, recipientPublicKey, mySecretKey, r) ==
    LET nonce == RandomBytes(24, r)
        encrypted == Box(sharedKeyBytes, nonce,
                         DecodeBase64(recipientPublicKey), DecodeBase64(mySecretKey))
    IN  [encryptedSharedKey |-> EncodeBase64(encrypted), nonce |-> EncodeBase64(nonce)]

decryptSharedKey(encryptedBase64, nonceBase64, senderPublicKey, mySecretKey) ==
    LET decrypted == BoxOpen(DecodeBase64(encryptedBase64), DecodeBase64(nonceBase64),
                             DecodeBase64(senderPublicKey), DecodeBase64(mySecretKey))
    IN  IF decrypted = Null THEN Err("Khong the giai ma sharedKey") ELSE decrypted

encryptMessage_staleNonce(message, sharedKeyBytes, counter, r) ==
    LET nonce == createNonce(Num(counter), r)
        encrypted == SecretBox(DecodeUTF8(message), nonce, sharedKeyBytes)
    IN  [encryptedContent |-> EncodeBase64(encrypted),
         nonce |-> EncodeBase64(createNonce(Num(counter + 1), r))]

\* nacl.secretbox checks the key it is given: a Uint8Array of 32 bytes
KeySizeOk(key) == key.t = "dhkey" \/ (key.t = "rnd" /\ key.len = 32)

\* the record is an error thrown, not a result
Threw(x) == "t" \in DOMAIN x /\ x.t = "err"

encryptMessage(message, sharedKeyBytes, counter, r) ==
    LET nonce == createNonce(Num(counter), r)
        encrypted == SecretBox(DecodeUTF8(message), nonce, sharedKeyBytes)
    IN  IF ~KeySizeOk(sharedKeyBytes) THEN Err("bad key size")
        ELSE [encryptedContent |-> EncodeBase64(encrypted),
              nonce |-> EncodeBase64(nonce)]

decryptMessage_unchecked(encryptedBase64, nonceBase64, sharedKeyBytes) ==
    LET decrypted == SecretBoxOpen(DecodeBase64(encryptedBase64),
                                   DecodeBase64(nonceBase64), sharedKeyBytes)
    IN  IF decrypted = Null THEN decrypted ELSE EncodeUTF8(decrypted)

decryptMessage(encryptedBase64, nonceBase64, sharedKeyBytes) ==
    LET decrypted == SecretBoxOpen(DecodeBase64(encryptedBase64),
                                   DecodeBase64(nonceBase64), sharedKeyBytes)
    IN  IF decrypted = Null THEN Err("Khong the giai ma tin nhan")
        ELSE EncodeUTF8(decrypted)

generateKdfSalt(r) == RandomBytes(32, r)

deriveKeyFromPassword(password, saltBytes) ==
    Pbkdf2(DecodeUTF8(password), saltBytes, PBKDF2_ITERATIONS, "SHA-256")

encryptPrivateKey(privateKeyBytes, masterKeyBytes, r) ==
    LET nonce == RandomBytes(24, r)
        encrypted == SecretBox(privateKeyBytes, nonce, masterKeyBytes)
    IN  [encryptedPrivateKey |-> EncodeBase64(encrypted), nonce |-> EncodeBase64(nonce)]

decryptPrivateKey_unchecked(encryptedBase64, nonceBase64, masterKeyBytes) ==
    SecretBoxOpen(DecodeBase64(encryptedBase64), DecodeBase64(nonceBase64),
                  masterKeyBytes)

decryptPrivateKey(encryptedBase64, nonceBase64, masterKeyBytes) ==
    LET decrypted == SecretBoxOpen(DecodeBase64(encryptedBase64),
                                   DecodeBase64(nonceBase64), masterKeyBytes)
    IN  IF decrypted = Null
        THEN Err("Sai password - khong the giai ma private key")
        ELSE decrypted


\* ------------------------------------------------------------ input domains
Txt(s) == [t |-> "txt", v |-> s]
Pw(s) == [t |-> "pw", v |-> s]
Plaintexts == {Txt("hello"), Txt("hi")}
Passwords == {Pw("abc123"), Pw("wrong1")}
Counters == 0..MaxCounter

Users == {"alice", "bob"}

VARIABLES
    cx,      \* the crypto functions' inputs and results (SpecCrypto)
    users,   \* server: User collection, in creation order (_id = position)
    chats,   \* server: Chat collection (_id = position)
    msgs,    \* server: Message collection (_id = position)
    rooms,   \* server: chat rooms each user's socket has joined
    c2s,     \* socket events emitted by each client, not yet handled
    s2c,     \* socket events broadcast to each client, not yet delivered
    ls,      \* each user's browser localStorage (secretKey_<id>)
    cl,      \* each user's page: React state and refs
    regd,    \* history: what each user's successful registration generated
    last,    \* history: the last operation each user performed
    sent,    \* history: the plaintexts each user has sent, in order
    wire,    \* history: the payload fields of the last requests sent
    made     \* history: the shared key each user's createAndShareKey generated

appVars ==
    <<users, chats, msgs, rooms, c2s, s2c, ls, cl, regd, last, sent, wire, made>>
vars == <<cx, appVars>>

CxOff == [pc |-> "off"]

\* useState / useRef initial values of App()
InitClient ==
    [step |-> "register", currentUser |-> Null, myKeyPair |-> Null,
     sharedKey |-> Null, counter |-> 0, socket |-> FALSE,
     chatPartner |-> Null, currentChat |-> Null, messages |-> <<>>,
     hasMore |-> FALSE, nextCursor |-> Null, loading |-> FALSE,
     pc |-> "idle", resp |-> Null, alert |-> ""]

InitApp ==
    /\ users = <<>>
    /\ chats = <<>>
    /\ msgs = <<>>
    /\ rooms = [u \in Users |-> {}]
    /\ c2s = [u \in Users |-> <<>>]
    /\ s2c = [u \in Users |-> <<>>]
    /\ ls = [u \in Users |-> Null]
    /\ cl = [u \in Users |-> InitClient]
    /\ regd = [u \in Users |-> Null]
    /\ last = [u \in Users |-> Null]
    /\ sent = [u \in Users |-> <<>>]
    /\ wire = <<>>
    /\ made = [u \in Users |-> Null]

\* ========================================================================
\* Server: REST handlers on the User collection
\* ========================================================================
KdfParamsDefault ==
    [algorithm |-> "pbkdf2", iterations |-> PBKDF2_ITERATIONS, hash |-> "SHA-256"]

\* User.findOne({ username }): the _id, or 0 when there is none
FindUserByName(name) ==
    IF \E i \in 1..Len(users) : users[i].username = name
    THEN CHOOSE i \in 1..Len(users) : users[i].username = name
    ELSE 0

\* the projection "username publicKey"
PublicUser(i) ==
    [_id |-> i, username |-> users[i].username, publicKey |-> users[i].publicKey]

\* new User({...}) as saved by POST /api/register
UserDoc(body) ==
    [username |-> body.username,
     publicKey |-> body.publicKey,
     encryptedPrivateKey |-> body.encryptedPrivateKey,
     privateKeyNonce |-> body.privateKeyNonce,
     kdfSalt |-> body.kdfSalt,
     kdfParams |-> body.kdfParams]

\* POST /api/register storing the request over an existing record
PostRegister_overwrite(body) ==
    IF FindUserByName(body.username) # 0
    THEN [ok |-> TRUE, status |-> 201,
          user |-> [_id |-> FindUserByName(body.username),
                    username |-> body.username, publicKey |-> body.publicKey],
          users |-> [users EXCEPT ![FindUserByName(body.username)] = UserDoc(body)]]
    ELSE [ok |-> TRUE, status |-> 201,
          user |-> [_id |-> Len(users) + 1, username |-> body.username,
                    publicKey |-> body.publicKey],
          users |-> Append(users, UserDoc(body))]

\* POST /api/register
PostRegister(body) ==
    IF FindUserByName(body.username) # 0
    THEN [ok |-> FALSE, status |-> 400, error |-> "Username da ton tai",
          users |-> users]
    ELSE [ok |-> TRUE, status |-> 201,
          user |-> [_id |-> Len(users) + 1, username |-> body.username,
                    publicKey |-> body.publicKey],
          users |-> Append(users, UserDoc(body))]

\* GET /api/user/by-username/:username
GetUserByUsername(name) ==
    IF FindUserByName(name) = 0
    THEN [ok |-> FALSE, status |-> 404, error |-> "User khong ton tai"]
    ELSE [ok |-> TRUE, status |-> 200, data |-> PublicUser(FindUserByName(name))]

\* GET /api/user/:id
GetUserById(id) ==
    IF id \in 1..Len(users)
    THEN [ok |-> TRUE, status |-> 200, data |-> PublicUser(id)]
    ELSE [ok |-> FALSE, status |-> 404, error |-> "User khong ton tai"]

\* GET /api/user/:username/encrypted-key
GetEncryptedKey(name) ==
    LET i == FindUserByName(name)
    IN  IF i = 0
        THEN [ok |-> FALSE, status |-> 404, error |-> "User khong ton tai"]
        ELSE IF users[i].encryptedPrivateKey = Null
        THEN [ok |-> FALSE, status |-> 404, error |-> "No backup key found"]
        ELSE [ok |-> TRUE, status |-> 200,
              data |-> [encryptedPrivateKey |-> users[i].encryptedPrivateKey,
                        privateKeyNonce |-> users[i].privateKeyNonce,
                        kdfSalt |-> users[i].kdfSalt,
                        kdfParams |-> users[i].kdfParams,
                        publicKey |-> users[i].publicKey]]

\* ========================================================================
\* Client: register, login, page reload
\* ========================================================================
\* connectSocket(userId): a new socket, which has joined no chat room yet
ConnectSocket(u) == rooms' = [rooms EXCEPT ![u] = {}]

RegisterBody_unwrapped(u, pw, s, r) ==
    LET keyPair == generateKeyPair(s)
        kdfSalt == generateKdfSalt(r)
    IN  [username |-> u,
         publicKey |-> keyPair.publicKey,
         encryptedPrivateKey |-> keyPair.secretKey,
         privateKeyNonce |-> EncodeBase64(RandomBytes(24, r)),
         kdfSalt |-> EncodeBase64(kdfSalt),
         kdfParams |-> KdfParamsDefault]

\* register(), steps 1-4: the request body; s is the key pair nacl.box.keyPair
\* draws, r the random bytes the salt and the nonce are cut from
RegisterBody(u, pw, s, r) ==
    LET keyPair == generateKeyPair(s)
        kdfSalt == generateKdfSalt(r)
        masterKey == deriveKeyFromPassword(pw, kdfSalt)
        wrapped == encryptPrivateKey(DecodeBase64(keyPair.secretKey), masterKey, r)
    IN  [username |-> u,
         publicKey |-> keyPair.publicKey,
         encryptedPrivateKey |-> wrapped.encryptedPrivateKey,
         privateKeyNonce |-> wrapped.nonce,
         kdfSalt |-> EncodeBase64(kdfSalt),
         kdfParams |-> KdfParamsDefault]

\* register()
Register(u, pw, s, r) ==
    /\ cl[u].step = "register"
    /\ cl[u].pc = "idle"
    /\ LET keyPair == generateKeyPair(s)
           body == RegisterBody(u, pw, s, r)
           res == PostRegister(body)
       IN  /\ wire' = <<body.publicKey, body.encryptedPrivateKey,
                        body.privateKeyNonce, body.kdfSalt>>
           /\ last' = [last EXCEPT ![u] = [name |-> "register", pw |-> pw]]
           /\ users' = res.users
           /\ IF res.ok
              THEN /\ cl' = [cl EXCEPT ![u].myKeyPair = keyPair,
                               ![u].currentUser = res.user,
                               ![u].socket = TRUE,
                               ![u].step = "users",
                               ![u].alert = ""]
                   /\ ls' = [ls EXCEPT ![u] = keyPair.secretKey]
                   /\ regd' = [regd EXCEPT ![u] = [pw |-> pw, keyPair |-> keyPair]]
                   /\ ConnectSocket(u)
              ELSE /\ cl' = [cl EXCEPT ![u].myKeyPair = keyPair,
                               ![u].alert = res.error]
                   /\ UNCHANGED <<ls, regd, rooms>>
    /\ UNCHANGED <<cx, chats, msgs, c2s, s2c, sent, made>>

\* login(): steps "Derive Master Key" and "Decrypt private key" of the
\* recovery branch; the recovered secret key as stored, or the error thrown
RecoverSecretKey_raw(keyData, pw) ==
    LET kdfSalt == DecodeBase64(keyData.kdfSalt)
        masterKey == deriveKeyFromPassword(pw, kdfSalt)
    IN  decryptPrivateKey(keyData.encryptedPrivateKey, keyData.privateKeyNonce,
                          masterKey)

RecoverSecretKey(keyData, pw) ==
    LET kdfSalt == DecodeBase64(keyData.kdfSalt)
        masterKey == deriveKeyFromPassword(pw, kdfSalt)
        decryptedPrivateKey ==
            decryptPrivateKey(keyData.encryptedPrivateKey, keyData.privateKeyNonce,
                              masterKey)
    IN  IF IsErr(decryptedPrivateKey) THEN decryptedPrivateKey
        ELSE EncodeBase64(decryptedPrivateKey)

\* login() whose catch of the recovery branch does not return: it goes on to
\* connect the socket and to show the user list
Login_noReturn(u, pw) ==
    /\ cl[u].step = "register"
    /\ cl[u].pc = "idle"
    /\ LET res == GetUserByUsername(u)
           secretKey == ls[u]
           keyRes == GetEncryptedKey(u)
           recovered == RecoverSecretKey(keyRes.data, pw)
       IN  IF ~res.ok
           THEN /\ cl' = [cl EXCEPT ![u].alert = res.error]
                /\ UNCHANGED <<ls, rooms>>
           ELSE IF secretKey # Null
           THEN /\ cl' = [cl EXCEPT ![u].myKeyPair =
                                      [publicKey |-> res.data.publicKey,
                                       secretKey |-> secretKey],
                               ![u].currentUser = res.data,
                               ![u].socket = TRUE,
                               ![u].step = "users",
                               ![u].alert = ""]
                /\ ConnectSocket(u)
                /\ UNCHANGED ls
           ELSE IF ~keyRes.ok
           THEN /\ cl' = [cl EXCEPT ![u].alert = keyRes.error]
                /\ UNCHANGED <<ls, rooms>>
           ELSE IF IsErr(recovered)
           THEN /\ cl' = [cl EXCEPT ![u].alert =
                                      "Sai password! Khong the khoi phuc key.",
                               ![u].socket = TRUE,
                               ![u].step = "users"]
                /\ ConnectSocket(u)
                /\ UNCHANGED ls
           ELSE /\ ls' = [ls EXCEPT ![u] = recovered]
                /\ cl' = [cl EXCEPT ![u].myKeyPair =
                                      [publicKey |-> keyRes.data.publicKey,
                                       secretKey |-> recovered],
                               ![u].currentUser = res.data,
                               ![u].socket = TRUE,
                               ![u].step = "users",
                               ![u].alert = ""]
                /\ ConnectSocket(u)
    /\ wire' = <<>>
    /\ UNCHANGED <<cx, users, chats, msgs, c2s, s2c, regd, sent, made>>
    /\ last' = [last EXCEPT ![u] = [name |-> "login", pw |-> pw, hadLocalKey |-> ls[u] # Null]]

\* login()
Login(u, pw) ==
    /\ cl[u].step = "register"
    /\ cl[u].pc = "idle"
    /\ LET res == GetUserByUsername(u)
           secretKey == ls[u]
           keyRes == GetEncryptedKey(u)
           recovered == RecoverSecretKey(keyRes.data, pw)
       IN  IF ~res.ok
           THEN /\ cl' = [cl EXCEPT ![u].alert = res.error]
                /\ UNCHANGED <<ls, rooms>>
           ELSE IF secretKey # Null
           THEN \* Case 1: the local key is used as it is
                /\ cl' = [cl EXCEPT ![u].myKeyPair =
                                      [publicKey |-> res.data.publicKey,
                                       secretKey |-> secretKey],
                               ![u].currentUser = res.data,
                               ![u].socket = TRUE,
                               ![u].step = "users",
                               ![u].alert = ""]
                /\ ConnectSocket(u)
                /\ UNCHANGED ls
           ELSE IF ~keyRes.ok
           THEN /\ cl' = [cl EXCEPT ![u].alert = keyRes.error]
                /\ UNCHANGED <<ls, rooms>>
           ELSE IF IsErr(recovered)
           THEN /\ cl' = [cl EXCEPT ![u].alert =
                                      "Sai password! Khong the khoi phuc key."]
                /\ UNCHANGED <<ls, rooms>>
           ELSE /\ ls' = [ls EXCEPT ![u] = recovered]
                /\ cl' = [cl EXCEPT ![u].myKeyPair =
                                      [publicKey |-> keyRes.data.publicKey,
                                       secretKey |-> recovered],
                               ![u].currentUser = res.data,
                               ![u].socket = TRUE,
                               ![u].step = "users",
                               ![u].alert = ""]
                /\ ConnectSocket(u)
    /\ wire' = <<>>
    /\ UNCHANGED <<cx, users, chats, msgs, c2s, s2c, regd, sent, made>>
    /\ last' = [last EXCEPT ![u] = [name |-> "login", pw |-> pw, hadLocalKey |-> ls[u] # Null]]

\* loginWithKey(): the backup is always fetched and opened
LoginWithKey(u, pw) ==
    /\ cl[u].step = "register"
    /\ cl[u].pc = "idle"
    /\ LET keyRes == GetEncryptedKey(u)
           recovered == RecoverSecretKey(keyRes.data, pw)
       IN  IF ~keyRes.ok
           THEN /\ cl' = [cl EXCEPT ![u].alert = keyRes.error]
                /\ UNCHANGED <<ls, rooms>>
           ELSE IF IsErr(recovered)
           THEN /\ cl' = [cl EXCEPT ![u].alert = "Sai password!"]
                /\ UNCHANGED <<ls, rooms>>
           ELSE /\ ls' = [ls EXCEPT ![u] = recovered]
                /\ cl' = [cl EXCEPT ![u].myKeyPair =
                                      [publicKey |-> keyRes.data.publicKey,
                                       secretKey |-> recovered],
                               ![u].currentUser =
                                      [_id |-> FindUserByName(u), username |-> u,
                                       publicKey |-> keyRes.data.publicKey],
                               ![u].socket = TRUE,
                               ![u].step = "users",
                               ![u].alert = ""]
                /\ ConnectSocket(u)
    /\ wire' = <<>>
    /\ UNCHANGED <<cx, users, chats, msgs, c2s, s2c, regd, sent, made>>
    /\ last' = [last EXCEPT ![u] = [name |-> "loginWithKey", pw |-> pw,
                                   hadLocalKey |-> ls[u] # Null]]

\* the page is refreshed: state and refs are lost, localStorage is kept, the
\* socket disconnects (it leaves its rooms; events on their way to it are lost;
\* what it has emitted has reached the server before the page goes away)
Reload(u) ==
    /\ cl[u] # InitClient \/ last[u] # [name |-> "reload"]
    /\ c2s[u] = <<>>
    /\ cl' = [cl EXCEPT ![u] = InitClient]
    /\ rooms' = [rooms EXCEPT ![u] = {}]
    /\ s2c' = [s2c EXCEPT ![u] = <<>>]
    /\ last' = [last EXCEPT ![u] = [name |-> "reload"]]
    /\ UNCHANGED <<cx, users, chats, msgs, c2s, ls, regd, sent, wire, made>>

\* DevTools > Application > Clear: the secret key is removed from localStorage
ClearLocalStorage(u) ==
    /\ ls[u] # Null
    /\ ls' = [ls EXCEPT ![u] = Null]
    /\ last' = [last EXCEPT ![u] = [name |-> "clearStorage"]]
    /\ UNCHANGED <<cx, users, chats, msgs, rooms, c2s, s2c, cl, regd, sent, wire, made>>

\* ========================================================================
\* Server: chats, messages, socket events
\* ========================================================================
Min(S) == CHOOSE i \in S : \A j \in S : i <= j

InSeq(x, seq) == \E j \in 1..Len(seq) : seq[j] = x

NameOf(id) == users[id].username

\* Chat.findOne({ participants: { $all: participantIds } }): the _id, or 0
FindChat(participantIds) ==
    LET hits == {i \in 1..Len(chats) :
                    \A k \in 1..Len(participantIds) :
                        InSeq(participantIds[k], chats[i].participants)}
    IN  IF hits = {} THEN 0 ELSE Min(hits)

ChatView(i) ==
    [_id |-> i, participants |-> chats[i].participants,
     encryptedKeys |-> chats[i].encryptedKeys]

\* POST /api/chat/create
PostChatCreate(participantIds) ==
    IF Len(participantIds) # 2
    THEN [ok |-> FALSE, status |-> 400, error |-> "Can dung 2 participants",
          chats |-> chats]
    ELSE IF FindChat(participantIds) # 0
    THEN [ok |-> TRUE, status |-> 200, chat |-> ChatView(FindChat(participantIds)),
          chats |-> chats]
    ELSE [ok |-> TRUE, status |-> 200,
          chat |-> [_id |-> Len(chats) + 1, participants |-> participantIds,
                    encryptedKeys |-> <<>>],
          chats |-> Append(chats, [participants |-> participantIds,
                                   encryptedKeys |-> <<>>])]

\* POST /api/chat/create, from the request to the answer of "await
\* Chat.findOne": what the query found is kept with the request of user u
ChatCreateFind(u, participantIds) ==
    /\ cl[u].step = "users"
    /\ cl[u].pc = "idle"
    /\ Len(participantIds) = 2
    /\ cl' = [cl EXCEPT ![u].pc = "create",
                        ![u].resp = [t |-> "create",
                                     participantIds |-> participantIds,
                                     chat |-> FindChat(participantIds)]]
    /\ UNCHANGED <<cx, users, chats, msgs, rooms, c2s, s2c, ls, regd, last, sent,
                   wire, made>>

\* POST /api/chat/create, from the answer of findOne on: a new chat is saved
\* when the query had found none; res.json(chat)
ChatCreateSave(u) ==
    /\ cl[u].pc = "create"
    /\ LET req == cl[u].resp
       IN  /\ chats' = IF req.chat = 0
                       THEN Append(chats, [participants |-> req.participantIds,
                                           encryptedKeys |-> <<>>])
                       ELSE chats
           /\ last' = [last EXCEPT ![u] =
                          [name |-> "chatCreate",
                           chat |-> IF req.chat = 0 THEN Len(chats) + 1
                                    ELSE req.chat]]
    /\ cl' = [cl EXCEPT ![u].pc = "idle", ![u].resp = Null]
    /\ UNCHANGED <<cx, users, msgs, rooms, c2s, s2c, ls, regd, sent, wire, made>>

\* Message.find(query).sort({ _id: -1 }): the matching _ids, newest first
RECURSIVE Descending(_)
Descending(S) ==
    IF S = {} THEN <<>>
    ELSE LET m == CHOOSE i \in S : \A j \in S : j <= i
         IN  <<m>> \o Descending(S \ {m})

\* the list entry taking its nonce from the first stored message
MessageView_firstNonce(i) ==
    [_id |-> i, chatId |-> msgs[i].chatId,
     senderId |-> [_id |-> msgs[i].senderId, username |-> NameOf(msgs[i].senderId)],
     encryptedContent |-> msgs[i].encryptedContent,
     nonce |-> msgs[1].nonce,
     messageCounter |-> msgs[i].messageCounter]

\* .populate("senderId", "username").lean()
MessageView(i) ==
    [_id |-> i, chatId |-> msgs[i].chatId,
     senderId |-> [_id |-> msgs[i].senderId, username |-> NameOf(msgs[i].senderId)],
     encryptedContent |-> msgs[i].encryptedContent,
     nonce |-> msgs[i].nonce,
     messageCounter |-> msgs[i].messageCounter]

\* the decimal digits of a query string
Digits == <<"0", "1", "2", "3", "4", "5", "6", "7", "8", "9">>

DigitValue(ch) == (CHOOSE d \in 1..10 : Digits[d] = ch) - 1

IsDigit(ch) == \E d \in 1..10 : Digits[d] = ch

\* `${limit}` in the request URL: the number written in decimal
RECURSIVE String(_)
String(n) ==
    IF n < 10 THEN <<Digits[n + 1]>>
    ELSE String(n \div 10) \o <<Digits[(n % 10) + 1]>>

NaN == [t |-> "NaN"]

\* the value of the longest prefix of digits of cs, after the digits of acc
RECURSIVE DigitPrefix(_, _)
DigitPrefix(cs, acc) ==
    IF cs = <<>> \/ ~IsDigit(Head(cs)) THEN acc
    ELSE DigitPrefix(Tail(cs), 10 * acc + DigitValue(Head(cs)))

RECURSIVE SkipBlanks(_)
SkipBlanks(cs) ==
    IF cs # <<>> /\ Head(cs) = " " THEN SkipBlanks(Tail(cs)) ELSE cs

\* parseInt(req.query.limit): undefined and strings without a leading number
\* give NaN; blanks in front are skipped, a sign is read, what follows the
\* digits is ignored
parseInt(q) ==
    IF q = Null THEN NaN
    ELSE LET cs == SkipBlanks(q.cs)
             neg == cs # <<>> /\ Head(cs) = "-"
             ds == IF cs # <<>> /\ Head(cs) \in {"-", "+"} THEN Tail(cs) ELSE cs
         IN  IF ds = <<>> \/ ~IsDigit(Head(ds)) THEN NaN
             ELSE [t |-> "num",
                   v |-> IF neg THEN 0 - DigitPrefix(ds, 0) ELSE DigitPrefix(ds, 0)]

\* a query parameter with the given characters
Query(cs) == [t |-> "str", cs |-> cs]

\* parseInt(req.query.limit) || 20
QueryLimit(q) ==
    LET n == parseInt(q)
    IN  IF n = NaN \/ n.v = 0 THEN 20 ELSE n.v

\* .limit(n) of the query: 0 is no limit, a negative n limits to -n
MongoLimit(all, n) ==
    LET k == IF n < 0 THEN 0 - n ELSE n
    IN  IF n = 0 \/ Len(all) <= k THEN all ELSE SubSeq(all, 1, k)

\* the same handler asking for limit messages and telling hasMore from a full
\* page
GetMessages_noExtra(chatId, limitParam, cursor) ==
    LET limit == QueryLimit(limitParam)
        found == {i \in 1..Len(msgs) :
                     /\ msgs[i].chatId = chatId
                     /\ (cursor # Null => i < cursor.v)}
        all == Descending(found)
        ids == MongoLimit(all, limit)
        hasMore == Len(ids) >= limit
    IN  [t |-> "res",
         messages |-> [k \in 1..Len(ids) |-> MessageView(ids[k])],
         hasMore |-> hasMore,
         nextCursor |-> IF Len(ids) > 0 THEN [t |-> "id", v |-> ids[Len(ids)]] ELSE Null]

\* the same handler with the query _id <= cursor
GetMessages_inclusive(chatId, limitParam, cursor) ==
    LET limit == QueryLimit(limitParam)
        found == {i \in 1..Len(msgs) :
                     /\ msgs[i].chatId = chatId
                     /\ (cursor # Null => i <= cursor.v)}
        all == Descending(found)
        fetched == MongoLimit(all, limit + 1)
        hasMore == Len(fetched) > limit
        ids == IF hasMore THEN SubSeq(fetched, 1, Len(fetched) - 1) ELSE fetched
    IN  [t |-> "res",
         messages |-> [k \in 1..Len(ids) |-> MessageView(ids[k])],
         hasMore |-> hasMore,
         nextCursor |-> IF Len(ids) > 0 THEN [t |-> "id", v |-> ids[Len(ids)]] ELSE Null]

\* GET /api/chat/:chatId/messages?limit=&cursor=
GetMessages(chatId, limitParam, cursor) ==
    LET limit == QueryLimit(limitParam)
        found == {i \in 1..Len(msgs) :
                     /\ msgs[i].chatId = chatId
                     /\ (cursor # Null => i < cursor.v)}
        all == Descending(found)
        fetched == MongoLimit(all, limit + 1)
        hasMore == Len(fetched) > limit
        ids == IF hasMore THEN SubSeq(fetched, 1, Len(fetched) - 1) ELSE fetched
    IN  [t |-> "res",
         messages |-> [k \in 1..Len(ids) |-> MessageView(ids[k])],
         hasMore |-> hasMore,
         nextCursor |-> IF Len(ids) > 0 THEN [t |-> "id", v |-> ids[Len(ids)]] ELSE Null]

\* io.to(room).emit(ev): the event is queued for every connected socket in the room
Broadcast(members, ev) ==
    [v \in Users |-> IF v \in members THEN Append(s2c[v], ev) ELSE s2c[v]]

\* socket.on("join_chat")
ServerJoinChat(u) ==
    /\ c2s[u] # <<>>
    /\ Head(c2s[u]).ev = "join_chat"
    /\ rooms' = [rooms EXCEPT ![u] = @ \cup {Head(c2s[u]).chatId}]
    /\ c2s' = [c2s EXCEPT ![u] = Tail(@)]
    /\ UNCHANGED <<cx, users, chats, msgs, s2c, ls, cl, regd, last, sent, wire, made>>

\* the fields messageSchema requires
MessageFields == {"chatId", "senderId", "encryptedContent", "nonce", "messageCounter"}

\* message.save() rejects: validation fails when a required field is missing
\* from the event
SaveRejects(data) == \E f \in MessageFields : f \notin DOMAIN data

\* socket.on("send_message") emitting to the room before the save
ServerSendMessage_relayFirst(u) ==
    /\ c2s[u] # <<>>
    /\ Head(c2s[u]).ev = "send_message"
    /\ LET data == Head(c2s[u])
           room == IF "chatId" \in DOMAIN data
                   THEN {v \in Users : data.chatId \in rooms[v]} ELSE {}
           unsaved == [ev |-> "receive_message",
                       message |-> [_id |-> Len(msgs) + 1] @@ data]
           saved == [_id |-> Len(msgs) + 1, chatId |-> data.chatId,
                     senderId |-> [_id |-> data.senderId,
                                   username |-> NameOf(data.senderId)],
                     encryptedContent |-> data.encryptedContent,
                     nonce |-> data.nonce,
                     messageCounter |-> data.messageCounter]
       IN  IF SaveRejects(data)
           THEN /\ UNCHANGED msgs
                /\ s2c' = [Broadcast(room, unsaved) EXCEPT ![u] =
                              Append(@, [ev |-> "error",
                                         message |-> "Message validation failed"])]
           ELSE /\ msgs' = Append(msgs, [f \in MessageFields |-> data[f]])
                /\ s2c' = Broadcast(room, [ev |-> "receive_message",
                                           message |-> saved])
    /\ c2s' = [c2s EXCEPT ![u] = Tail(@)]
    /\ UNCHANGED <<cx, users, chats, rooms, ls, cl, regd, last, sent, wire, made>>

\* socket.on("send_message"): save, populate, broadcast to the chat room; when
\* the save throws, socket.emit("error") to the sender
ServerSendMessage(u) ==
    /\ c2s[u] # <<>>
    /\ Head(c2s[u]).ev = "send_message"
    /\ LET data == Head(c2s[u])
           message == [chatId |-> data.chatId, senderId |-> data.senderId,
                       encryptedContent |-> data.encryptedContent,
                       nonce |-> data.nonce,
                       messageCounter |-> data.messageCounter]
           saved == [_id |-> Len(msgs) + 1, chatId |-> data.chatId,
                     senderId |-> [_id |-> data.senderId,
                                   username |-> NameOf(data.senderId)],
                     encryptedContent |-> data.encryptedContent,
                     nonce |-> data.nonce,
                     messageCounter |-> data.messageCounter]
       IN  IF SaveRejects(data)
           THEN /\ UNCHANGED msgs
                /\ s2c' = [s2c EXCEPT ![u] =
                              Append(@, [ev |-> "error",
                                         message |-> "Message validation failed"])]
           ELSE /\ msgs' = Append(msgs, message)
                /\ s2c' = Broadcast({v \in Users : data.chatId \in rooms[v]},
                                    [ev |-> "receive_message", message |-> saved])
    /\ c2s' = [c2s EXCEPT ![u] = Tail(@)]
    /\ UNCHANGED <<cx, users, chats, rooms, ls, cl, regd, last, sent, wire, made>>

\* ========================================================================
\* Client: chat (derived shared key)
\* ========================================================================
\* loadMessages(chatId, cursor, isLoadingMore) up to its fetch: the updated page
\* state (nothing happens while a load is in progress)
BeginLoad(c, cursor, isLoadingMore) ==
    IF c.loading THEN c
    ELSE [c EXCEPT !.loading = TRUE, !.pc = "fetch",
                   !.resp = [t |-> "req", cursor |-> cursor,
                             isLoadingMore |-> isLoadingMore]]

\* startChat(partner) of the derived-key client
StartChat(u, v) ==
    /\ cl[u].step = "users"
    /\ cl[u].pc = "idle"
    /\ u # v
    /\ FindUserByName(v) # 0
    /\ LET partner == PublicUser(FindUserByName(v))
           res == PostChatCreate(<<cl[u].currentUser._id, partner._id>>)
           sharedKey == deriveSharedKey(partner.publicKey, cl[u].myKeyPair.secretKey)
           opened == [cl[u] EXCEPT !.chatPartner = partner,
                                   !.currentChat = res.chat]
       IN  /\ chats' = res.chats
           /\ c2s' = [c2s EXCEPT ![u] =
                         Append(@, [ev |-> "join_chat", chatId |-> res.chat._id])]
           /\ IF IsErr(sharedKey)
              THEN cl' = [cl EXCEPT ![u] = opened]
              ELSE cl' = [cl EXCEPT ![u] =
                            BeginLoad([opened EXCEPT !.sharedKey = sharedKey,
                                                     !.nextCursor = Null,
                                                     !.hasMore = FALSE,
                                                     !.step = "chat"],
                                      Null, FALSE)]
    /\ last' = [last EXCEPT ![u] = [name |-> "startChat"]]
    /\ UNCHANGED <<cx, users, msgs, rooms, s2c, ls, regd, sent, wire, made>>

\* the server answers the page request of loadMessages
ServeMessages(u) ==
    /\ cl[u].pc = "fetch"
    /\ cl' = [cl EXCEPT ![u].pc = "resp",
                        ![u].resp = GetMessages(cl[u].currentChat._id, Query(String(PageLimit)),
                                                cl[u].resp.cursor)
                                    @@ [isLoadingMore |-> cl[u].resp.isLoadingMore]]
    /\ UNCHANGED <<cx, users, chats, msgs, rooms, c2s, s2c, ls, regd, last, sent, wire, made>>

\* loadMessages whose loop ends at the first message that cannot be decrypted
RECURSIVE DecryptPage_abort(_, _)
DecryptPage_abort(page, key) ==
    IF page = <<>> THEN <<>>
    ELSE LET msg == page[Len(page)]
             plaintext == IF key = Null THEN Null
                          ELSE decryptMessage(msg.encryptedContent, msg.nonce, key)
         IN  IF key = Null \/ IsErr(plaintext) THEN <<>>
             ELSE <<[text |-> plaintext, sender |-> msg.senderId.username,
                     id |-> msg._id]>>
                  \o DecryptPage_abort(SubSeq(page, 1, Len(page) - 1), key)

\* loadMessages: the loop over the page, oldest first; the list to display
RECURSIVE DecryptPage(_, _)
DecryptPage(page, key) ==
    IF page = <<>> THEN <<>>
    ELSE LET msg == page[Len(page)]
             plaintext == IF key = Null THEN Null
                          ELSE decryptMessage(msg.encryptedContent, msg.nonce, key)
         IN  (IF key = Null \/ IsErr(plaintext) THEN <<>>
              ELSE <<[text |-> plaintext, sender |-> msg.senderId.username,
                      id |-> msg._id]>>)
             \o DecryptPage(SubSeq(page, 1, Len(page) - 1), key)

\* loadMessages taking the counter from each message without comparing
RECURSIVE CounterAfterPage_assign(_, _)
CounterAfterPage_assign(page, counter) ==
    IF page = <<>> THEN counter
    ELSE LET msg == page[Len(page)]
         IN  CounterAfterPage_assign(SubSeq(page, 1, Len(page) - 1),
                                     msg.messageCounter + 1)

\* loadMessages: the loop over the page, oldest first; the send counter after it
RECURSIVE CounterAfterPage(_, _)
CounterAfterPage(page, counter) ==
    IF page = <<>> THEN counter
    ELSE LET msg == page[Len(page)]
         IN  CounterAfterPage(SubSeq(page, 1, Len(page) - 1),
                              IF msg.messageCounter >= counter
                              THEN msg.messageCounter + 1 ELSE counter)

\* loadMessages after its fetch: the page state once the response data has
\* been gone through
ShowPage(c, data) ==
    LET decryptedMessages == DecryptPage(data.messages, c.sharedKey)
    IN  [c EXCEPT
            !.counter = CounterAfterPage(data.messages, c.counter),
            !.messages = IF data.isLoadingMore
                         THEN decryptedMessages \o c.messages
                         ELSE decryptedMessages,
            !.hasMore = data.hasMore,
            !.nextCursor = data.nextCursor,
            !.loading = FALSE,
            !.pc = "idle",
            !.resp = Null]

\* loadMessages after its fetch
LoadMessagesDone(u) ==
    /\ cl[u].pc = "resp"
    /\ LET data == cl[u].resp
       IN  /\ cl' = [cl EXCEPT ![u] = ShowPage(cl[u], data)]
           /\ last' = [last EXCEPT ![u] =
                 [name |-> "loadMessages", isLoadingMore |-> data.isLoadingMore,
                  page |-> [k \in 1..Len(data.messages) |->
                               data.messages[Len(data.messages) + 1 - k]._id]]]
    /\ UNCHANGED <<cx, users, chats, msgs, rooms, c2s, s2c, ls, regd, sent, wire, made>>

\* loadMoreMessages()
LoadMoreMessages(u) ==
    /\ cl[u].step = "chat"
    /\ cl[u].pc = "idle"
    /\ cl[u].currentChat # Null
    /\ cl[u].hasMore
    /\ ~cl[u].loading
    /\ cl[u].nextCursor # Null
    /\ cl' = [cl EXCEPT ![u] = BeginLoad(cl[u], cl[u].nextCursor, TRUE)]
    /\ UNCHANGED <<cx, users, chats, msgs, rooms, c2s, s2c, ls, regd, last, sent, wire, made>>

\* send_message events emitted and not yet saved
RECURSIVE Sends(_)
Sends(q) ==
    IF q = <<>> THEN 0
    ELSE (IF Head(q).ev = "send_message" THEN 1 ELSE 0) + Sends(Tail(q))

SumOver(f, S) ==
    LET RECURSIVE Sum(_)
        Sum(T) == IF T = {} THEN 0
                  ELSE LET x == CHOOSE x \in T : TRUE IN f[x] + Sum(T \ {x})
    IN  Sum(S)

\* the text field's content: a text without outer whitespace, between leading
\* and trailing whitespace characters
Input(lead, text, trail) ==
    [t |-> "input", lead |-> lead, text |-> text, trail |-> trail]

\* String.prototype.trim
Trim(messageInput) == messageInput.text

\* sendMessage() whose increment is lost: the counter stays as it was read
sendMessage_noIncrement(c, messageInput, r) ==
    IF Trim(messageInput).v = "" \/ c.sharedKey = Null \/ c.currentChat = Null
    THEN [counter |-> c.counter, emitted |-> <<>>]
    ELSE LET enc == encryptMessage(Trim(messageInput), c.sharedKey, c.counter, r)
         IN  IF Threw(enc) THEN [counter |-> c.counter, emitted |-> <<>>]
             ELSE [counter |-> c.counter,
                   emitted |-> <<[ev |-> "send_message",
                                  chatId |-> c.currentChat._id,
                                  senderId |-> c.currentUser._id,
                                  encryptedContent |-> enc.encryptedContent,
                                  nonce |-> enc.nonce,
                                  messageCounter |-> c.counter]>>]

\* sendMessage() with the counter incremented before the message is encrypted
sendMessage_incrementFirst(c, messageInput, r) ==
    IF Trim(messageInput).v = "" \/ c.sharedKey = Null \/ c.currentChat = Null
    THEN [counter |-> c.counter, emitted |-> <<>>]
    ELSE LET enc == encryptMessage(Trim(messageInput), c.sharedKey, c.counter, r)
         IN  IF Threw(enc) THEN [counter |-> c.counter + 1, emitted |-> <<>>]
             ELSE [counter |-> c.counter + 1,
                   emitted |-> <<[ev |-> "send_message",
                                  chatId |-> c.currentChat._id,
                                  senderId |-> c.currentUser._id,
                                  encryptedContent |-> enc.encryptedContent,
                                  nonce |-> enc.nonce,
                                  messageCounter |-> c.counter + 1]>>]

\* sendMessage() on the page state c: the counter afterwards and the events
\* emitted (none when it returns early or encryptMessage throws)
sendMessage(c, messageInput, r) ==
    IF Trim(messageInput).v = "" \/ c.sharedKey = Null \/ c.currentChat = Null
    THEN [counter |-> c.counter, emitted |-> <<>>]
    ELSE LET enc == encryptMessage(Trim(messageInput), c.sharedKey, c.counter, r)
         IN  IF Threw(enc) THEN [counter |-> c.counter, emitted |-> <<>>]
             ELSE [counter |-> c.counter + 1,
                   emitted |-> <<[ev |-> "send_message",
                                  chatId |-> c.currentChat._id,
                                  senderId |-> c.currentUser._id,
                                  encryptedContent |-> enc.encryptedContent,
                                  nonce |-> enc.nonce,
                                  messageCounter |-> c.counter]>>]

\* sendMessage() called on the chat page with a text that is sent
SendMessage(u, text, r) ==
    /\ cl[u].step = "chat"
    /\ Len(msgs) + SumOver([v \in Users |-> Sends(c2s[v])], Users) < MaxMsgs
    /\ LET res == sendMessage(cl[u], Input(0, text, 0), r)
       IN  /\ res.emitted # <<>>
           /\ c2s' = [c2s EXCEPT ![u] = @ \o res.emitted]
           /\ cl' = [cl EXCEPT ![u].counter = res.counter]
    /\ sent' = [sent EXCEPT ![u] = Append(@, text)]
    /\ last' = [last EXCEPT ![u] = [name |-> "sendMessage"]]
    /\ UNCHANGED <<cx, users, chats, msgs, rooms, s2c, ls, regd, wire, made>>

\* the receive_message callback applied to the page state c
receive_message(c, message) ==
    LET plaintext == IF c.sharedKey = Null THEN Null
                     ELSE decryptMessage(message.encryptedContent, message.nonce,
                                         c.sharedKey)
    IN  IF c.sharedKey = Null \/ IsErr(plaintext)
        THEN c
        ELSE [c EXCEPT !.messages =
                 Append(@, [text |-> plaintext,
                            sender |-> message.senderId.username,
                            id |-> message._id])]

\* socketRef.current.on("receive_message")
ReceiveMessage(u) ==
    /\ s2c[u] # <<>>
    /\ Head(s2c[u]).ev = "receive_message"
    /\ LET message == Head(s2c[u]).message
       IN  /\ cl' = [cl EXCEPT ![u] = receive_message(cl[u], message)]
           /\ last' = [last EXCEPT ![u] =
                          [name |-> "receive_message", id |-> message._id]]
    /\ s2c' = [s2c EXCEPT ![u] = Tail(@)]
    /\ UNCHANGED <<cx, users, chats, msgs, rooms, c2s, ls, regd, sent, wire, made>>

\* ========================================================================
\* Distributed shared key: server grant handlers, client startChat
\* ========================================================================
\* chat.encryptedKeys.find(k => k.recipientId.toString() === id): position or 0
FindGrantByRecipient(keys, id) ==
    IF \E i \in 1..Len(keys) : keys[i].recipientId = id
    THEN Min({i \in 1..Len(keys) : keys[i].recipientId = id})
    ELSE 0

\* chat.encryptedKeys.find(k => k.senderId.toString() === id): position or 0
FindGrantBySender(keys, id) ==
    IF \E i \in 1..Len(keys) : keys[i].senderId = id
    THEN Min({i \in 1..Len(keys) : keys[i].senderId = id})
    ELSE 0

\* GET /api/chat/:chatId/key/:userId looking for the grant sent by the user
\* before the grant addressed to the user
GetChatKey_senderFirst(chatId, userId) ==
    IF chatId \notin 1..Len(chats)
    THEN [ok |-> FALSE, status |-> 404, error |-> "Chat khong ton tai"]
    ELSE LET keys == chats[chatId].encryptedKeys
             asRecipient == FindGrantByRecipient(keys, userId)
             asSender == FindGrantBySender(keys, userId)
         IN  IF asSender # 0
             THEN [ok |-> TRUE, status |-> 200,
                   data |-> keys[asSender] @@ [isSender |-> TRUE]]
             ELSE IF asRecipient # 0
             THEN [ok |-> TRUE, status |-> 200,
                   data |-> keys[asRecipient] @@ [isSender |-> FALSE]]
             ELSE [ok |-> FALSE, status |-> 404, error |-> "Chua co key cho user nay"]

\* GET /api/chat/:chatId/key/:userId
GetChatKey(chatId, userId) ==
    IF chatId \notin 1..Len(chats)
    THEN [ok |-> FALSE, status |-> 404, error |-> "Chat khong ton tai"]
    ELSE LET keys == chats[chatId].encryptedKeys
             asRecipient == FindGrantByRecipient(keys, userId)
             asSender == FindGrantBySender(keys, userId)
         IN  IF asRecipient # 0
             THEN [ok |-> TRUE, status |-> 200,
                   data |-> keys[asRecipient] @@ [isSender |-> FALSE]]
             ELSE IF asSender # 0
             THEN [ok |-> TRUE, status |-> 200,
                   data |-> keys[asSender] @@ [isSender |-> TRUE]]
             ELSE [ok |-> FALSE, status |-> 404, error |-> "Chua co key cho user nay"]

\* socket.on("key_exchange"): store the grant unless the recipient has one,
\* then forward it to the recipient's room
ServerKeyExchange(u) ==
    /\ c2s[u] # <<>>
    /\ Head(c2s[u]).ev = "key_exchange"
    /\ LET data == Head(c2s[u])
           grant == [recipientId |-> data.recipientId, senderId |-> data.senderId,
                     encryptedSharedKey |-> data.encryptedSharedKey,
                     nonce |-> data.nonce]
       IN  /\ IF /\ data.chatId \in 1..Len(chats)
                 /\ FindGrantByRecipient(chats[data.chatId].encryptedKeys,
                                         data.recipientId) = 0
              THEN chats' = [chats EXCEPT ![data.chatId].encryptedKeys =
                                Append(@, grant)]
              ELSE UNCHANGED chats
           /\ s2c' = Broadcast({v \in Users : /\ cl[v].socket
                                              /\ FindUserByName(v) = data.recipientId},
                               [ev |-> "key_received", chatId |-> data.chatId,
                                senderId |-> data.senderId,
                                encryptedSharedKey |-> data.encryptedSharedKey,
                                nonce |-> data.nonce])
    /\ c2s' = [c2s EXCEPT ![u] = Tail(@)]
    /\ UNCHANGED <<cx, users, msgs, rooms, ls, cl, regd, last, sent, wire, made>>

\* socketRef.current.on("key_received"): logged, nothing else
KeyReceived(u) ==
    /\ s2c[u] # <<>>
    /\ Head(s2c[u]).ev = "key_received"
    /\ s2c' = [s2c EXCEPT ![u] = Tail(@)]
    /\ UNCHANGED <<cx, users, chats, msgs, rooms, c2s, ls, cl, regd, last, sent, wire, made>>

\* POST /api/chat/:chatId/key: the grant is pushed whatever the chat holds,
\* then announced to the recipient's room
PostChatKey(chatId, body) ==
    IF chatId \notin 1..Len(chats)
    THEN [ok |-> FALSE, status |-> 404, error |-> "Chat khong ton tai",
          chats |-> chats, s2c |-> s2c]
    ELSE [ok |-> TRUE, status |-> 200, message |-> "Key da duoc luu va gui",
          chats |-> [chats EXCEPT ![chatId].encryptedKeys =
                        Append(@, [recipientId |-> body.recipientId,
                                   senderId |-> body.senderId,
                                   encryptedSharedKey |-> body.encryptedSharedKey,
                                   nonce |-> body.nonce])],
          s2c |-> Broadcast({v \in Users : /\ cl[v].socket
                                           /\ FindUserByName(v) = body.recipientId},
                            [ev |-> "key_received", chatId |-> chatId,
                             senderId |-> body.senderId,
                             encryptedSharedKey |-> body.encryptedSharedKey,
                             nonce |-> body.nonce])]

\* a participant who holds the chat's key sends POST /api/chat/:chatId/key with
\* the key sealed for user v (r: the nonce drawn, apart from the draws of
\* createAndShareKey)
RequestChatKey(u, v, r) ==
    /\ cl[u].step = "chat"
    /\ cl[u].sharedKey # Null
    /\ cl[u].currentChat # Null
    /\ FindUserByName(v) # 0
    /\ Len(chats[cl[u].currentChat._id].encryptedKeys) < MaxGrants
    /\ LET sealed == encryptSharedKey(cl[u].sharedKey,
                                      users[FindUserByName(v)].publicKey,
                                      cl[u].myKeyPair.secretKey, 2 * MaxRand + r)
           res == PostChatKey(cl[u].currentChat._id,
                              [recipientId |-> FindUserByName(v),
                               senderId |-> cl[u].currentUser._id,
                               encryptedSharedKey |-> sealed.encryptedSharedKey,
                               nonce |-> sealed.nonce])
       IN  /\ chats' = res.chats
           /\ s2c' = res.s2c
    /\ last' = [last EXCEPT ![u] = [name |-> "postChatKey", to |-> v]]
    /\ UNCHANGED <<cx, users, msgs, rooms, c2s, ls, cl, regd, sent, wire, made>>

\* startChat(partner) of the distributed-key client, up to the key request
StartChatA(u, v) ==
    /\ cl[u].step = "users"
    /\ cl[u].pc = "idle"
    /\ u # v
    /\ FindUserByName(v) # 0
    /\ LET partner == PublicUser(FindUserByName(v))
           res == PostChatCreate(<<cl[u].currentUser._id, partner._id>>)
       IN  /\ chats' = res.chats
           /\ c2s' = [c2s EXCEPT ![u] =
                         Append(@, [ev |-> "join_chat", chatId |-> res.chat._id])]
           /\ cl' = [cl EXCEPT ![u].chatPartner = partner,
                               ![u].currentChat = res.chat,
                               ![u].pc = "key"]
    /\ last' = [last EXCEPT ![u] = [name |-> "startChat"]]
    /\ UNCHANGED <<cx, users, msgs, rooms, s2c, ls, regd, sent, wire, made>>

\* createAndShareKey with the creator's own copy sealed for the partner
createAndShareKey_partnerBox(c, r) ==
    LET sharedKey == generateSharedKey(r)
        partnerKey == encryptSharedKey(sharedKey, c.chatPartner.publicKey,
                                       c.myKeyPair.secretKey, 2 * r - 1)
        myKey == encryptSharedKey(sharedKey, c.chatPartner.publicKey,
                                  c.myKeyPair.secretKey, 2 * r)
    IN  [sharedKey |-> sharedKey,
         events |-> <<[ev |-> "key_exchange", chatId |-> c.currentChat._id,
                       recipientId |-> c.chatPartner._id,
                       senderId |-> c.currentUser._id,
                       encryptedSharedKey |-> partnerKey.encryptedSharedKey,
                       nonce |-> partnerKey.nonce],
                      [ev |-> "key_exchange", chatId |-> c.currentChat._id,
                       recipientId |-> c.currentUser._id,
                       senderId |-> c.currentUser._id,
                       encryptedSharedKey |-> myKey.encryptedSharedKey,
                       nonce |-> myKey.nonce]>>]

\* createAndShareKey(chatId, partner): the new key and the two events emitted;
\* r is the key drawn, the two nonces are the draws that follow it
createAndShareKey(c, r) ==
    LET sharedKey == generateSharedKey(r)
        partnerKey == encryptSharedKey(sharedKey, c.chatPartner.publicKey,
                                       c.myKeyPair.secretKey, 2 * r - 1)
        myKey == encryptSharedKey(sharedKey, c.myKeyPair.publicKey,
                                  c.myKeyPair.secretKey, 2 * r)
    IN  [sharedKey |-> sharedKey,
         events |-> <<[ev |-> "key_exchange", chatId |-> c.currentChat._id,
                       recipientId |-> c.chatPartner._id,
                       senderId |-> c.currentUser._id,
                       encryptedSharedKey |-> partnerKey.encryptedSharedKey,
                       nonce |-> partnerKey.nonce],
                      [ev |-> "key_exchange", chatId |-> c.currentChat._id,
                       recipientId |-> c.currentUser._id,
                       senderId |-> c.currentUser._id,
                       encryptedSharedKey |-> myKey.encryptedSharedKey,
                       nonce |-> myKey.nonce]>>]

\* startChat: "Check existing key" - the stored grant opened, or the error
OpenStoredKey(c) ==
    LET keyRes == GetChatKey(c.currentChat._id, c.currentUser._id)
        sender == GetUserById(keyRes.data.senderId)
    IN  IF ~keyRes.ok THEN Err("no key")
        ELSE IF ~sender.ok THEN Err("no sender")
        ELSE decryptSharedKey(keyRes.data.encryptedSharedKey, keyRes.data.nonce,
                              sender.data.publicKey, c.myKeyPair.secretKey)

\* startChat giving up when the grant it was given cannot be opened: no key,
\* no chat step
ResolveKey_abort(u, r) ==
    /\ cl[u].pc = "key"
    /\ LET keyRes == GetChatKey(cl[u].currentChat._id, cl[u].currentUser._id)
           stored == OpenStoredKey(cl[u])
           created == createAndShareKey(cl[u], r)
           sharedKey == IF IsErr(stored) THEN created.sharedKey ELSE stored
       IN  IF keyRes.ok /\ IsErr(stored)
           THEN /\ cl' = [cl EXCEPT ![u].pc = "idle"]
                /\ last' = [last EXCEPT ![u] =
                               [name |-> "resolveKey", created |-> FALSE,
                                retrieved |-> keyRes.ok,
                                grants |-> Len(chats[cl[u].currentChat._id].encryptedKeys)]]
                /\ UNCHANGED <<c2s, made>>
           ELSE /\ c2s' = [c2s EXCEPT ![u] =
                              IF IsErr(stored) THEN @ \o created.events ELSE @]
                /\ cl' = [cl EXCEPT ![u] =
                             BeginLoad([cl[u] EXCEPT !.sharedKey = sharedKey,
                                                     !.nextCursor = Null,
                                                     !.hasMore = FALSE,
                                                     !.step = "chat",
                                                     !.pc = "idle"],
                                       Null, FALSE)]
                /\ last' = [last EXCEPT ![u] =
                               [name |-> "resolveKey", created |-> IsErr(stored),
                                retrieved |-> keyRes.ok,
                                grants |-> Len(chats[cl[u].currentChat._id].encryptedKeys)]]
                /\ made' = IF IsErr(stored)
                           THEN [made EXCEPT ![u] = created.sharedKey] ELSE made
    /\ UNCHANGED <<cx, users, chats, msgs, rooms, s2c, ls, regd, sent, wire>>

\* startChat from the key request on: use the stored key or create and share a
\* new one, then open the chat and start loading its history
ResolveKey(u, r) ==
    /\ cl[u].pc = "key"
    /\ LET stored == OpenStoredKey(cl[u])
           created == createAndShareKey(cl[u], r)
           sharedKey == IF IsErr(stored) THEN created.sharedKey ELSE stored
       IN  /\ c2s' = [c2s EXCEPT ![u] =
                         IF IsErr(stored) THEN @ \o created.events ELSE @]
           /\ cl' = [cl EXCEPT ![u] =
                        BeginLoad([cl[u] EXCEPT !.sharedKey = sharedKey,
                                                !.nextCursor = Null,
                                                !.hasMore = FALSE,
                                                !.step = "chat",
                                                !.pc = "idle"],
                                  Null, FALSE)]
           /\ last' = [last EXCEPT ![u] =
                          [name |-> "resolveKey", created |-> IsErr(stored),
                           retrieved |-> GetChatKey(cl[u].currentChat._id,
                                                    cl[u].currentUser._id).ok,
                           grants |-> Len(chats[cl[u].currentChat._id].encryptedKeys)]]
           /\ made' = IF IsErr(stored)
                      THEN [made EXCEPT ![u] = created.sharedKey] ELSE made
    /\ UNCHANGED <<cx, users, chats, msgs, rooms, s2c, ls, regd, sent, wire>>

\* both users have registered and are on the user list
\* (the random bytes drawn at registration differ from every later draw)
RegisteredAs(u) ==
    IF u = "alice" THEN [pw |-> Pw("abc123"), s |-> 1, r |-> MaxRand + 1, id |-> 1]
    ELSE [pw |-> Pw("abc123"), s |-> MaxScalar, r |-> MaxRand + 2, id |-> 2]

InitLoggedIn ==
    /\ users = <<UserDoc(RegisterBody("alice", RegisteredAs("alice").pw,
                                      RegisteredAs("alice").s, RegisteredAs("alice").r)),
                 UserDoc(RegisterBody("bob", RegisteredAs("bob").pw,
                                      RegisteredAs("bob").s, RegisteredAs("bob").r))>>
    /\ chats = <<>>
    /\ msgs = <<>>
    /\ rooms = [u \in Users |-> {}]
    /\ c2s = [u \in Users |-> <<>>]
    /\ s2c = [u \in Users |-> <<>>]
    /\ ls = [u \in Users |-> generateKeyPair(RegisteredAs(u).s).secretKey]
    /\ cl = [u \in Users |->
               [InitClient EXCEPT
                   !.step = "users",
                   !.currentUser = PublicUser(RegisteredAs(u).id),
                   !.myKeyPair = generateKeyPair(RegisteredAs(u).s),
                   !.socket = TRUE]]
    /\ regd = [u \in Users |-> [pw |-> RegisteredAs(u).pw,
                                keyPair |-> generateKeyPair(RegisteredAs(u).s)]]
    /\ last = [u \in Users |-> [name |-> "register", pw |-> RegisteredAs(u).pw]]
    /\ sent = [u \in Users |-> <<>>]
    /\ wire = <<>>
    /\ made = [u \in Users |-> Null]

InitChat == cx = CxOff /\ InitLoggedIn

NextChat ==
    \/ \E u \in Users, v \in Users : StartChat(u, v)
    \/ \E u \in Users : ServeMessages(u)
    \/ \E u \in Users : LoadMessagesDone(u)
    \/ \E u \in Users : LoadMoreMessages(u)
    \/ \E u \in Users, text \in Plaintexts, r \in SendRands : SendMessage(u, text, r)
    \/ \E u \in Users : ServerJoinChat(u)
    \/ \E u \in Users : ServerSendMessage(u)
    \/ \E u \in Users : ReceiveMessage(u)
    \/ \E u \in Users : Reload(u)
    \/ \E u \in Users, pw \in Passwords : LoginWithKey(u, pw)

SpecChat == InitChat /\ [][NextChat]_vars

InitKeyEx == cx = CxOff /\ InitLoggedIn

NextKeyEx ==
    \/ \E u \in Users, v \in Users : StartChatA(u, v)
    \/ \E u \in Users, r \in Rands : ResolveKey(u, r)
    \/ \E u \in Users : ServerJoinChat(u)
    \/ \E u \in Users : ServerKeyExchange(u)
    \/ \E u \in Users : KeyReceived(u)
    \/ \E u \in Users : ServeMessages(u)
    \/ \E u \in Users : LoadMessagesDone(u)
    \/ \E u \in Users : Reload(u)
    \/ \E u \in Users, pw \in Passwords : Login(u, pw)

SpecKeyEx == InitKeyEx /\ [][NextKeyEx]_vars

\* POST /api/chat/create requests of the two users, the ids in either order,
\* each request taking its two steps
NextCreate ==
    \/ \E u \in Users : \E v \in Users \ {u} :
          \/ ChatCreateFind(u, <<FindUserByName(u), FindUserByName(v)>>)
          \/ ChatCreateFind(u, <<FindUserByName(v), FindUserByName(u)>>)
    \/ \E u \in Users : ChatCreateSave(u)

SpecCreate == InitKeyEx /\ [][NextCreate]_vars


\* no socket event is on its way in either direction and no history page
\* is being fetched
Quiet ==
    \A u \in Users :
        c2s[u] = <<>> /\ s2c[u] = <<>> /\ cl[u].pc \notin {"fetch", "resp"}

\* the distributed-key application from an empty database: the two users
\* register, open the chat, exchange the key and send messages in one session;
\* a user acts when the events of the previous act have been handled
NextApp ==
    \/ \E u \in Users :
          Quiet /\ Register(u, RegisteredAs(u).pw, RegisteredAs(u).s, RegisteredAs(u).r)
    \/ \E u \in Users, v \in Users : Quiet /\ StartChatA(u, v)
    \/ \E u \in Users, r \in Rands : Quiet /\ ResolveKey(u, r)
    \/ \E u \in Users : ServerJoinChat(u)
    \/ \E u \in Users : ServerKeyExchange(u)
    \/ \E u \in Users : KeyReceived(u)
    \/ \E u \in Users : ServeMessages(u)
    \/ \E u \in Users : LoadMessagesDone(u)
    \/ \E u \in Users, text \in Plaintexts, r \in SendRands :
          Quiet /\ SendMessage(u, text, r)
    \/ \E u \in Users : ServerSendMessage(u)
    \/ \E u \in Users : ReceiveMessage(u)

\* the derived-key chat over several sessions; a user acts when the events
\* of the previous act have been handled
NextE2E ==
    \/ \E u \in Users, v \in Users : Quiet /\ StartChat(u, v)
    \/ \E u \in Users : ServeMessages(u)
    \/ \E u \in Users : LoadMessagesDone(u)
    \/ \E u \in Users : Quiet /\ LoadMoreMessages(u)
    \/ \E u \in Users, text \in Plaintexts, r \in SendRands :
          Quiet /\ SendMessage(u, text, r)
    \/ \E u \in Users : ServerJoinChat(u)
    \/ \E u \in Users : ServerSendMessage(u)
    \/ \E u \in Users : ReceiveMessage(u)
    \/ \E u \in Users : Quiet /\ Reload(u)
    \/ \E u \in Users, pw \in Passwords : Quiet /\ LoginWithKey(u, pw)

SpecE2E == InitChat /\ [][NextE2E]_vars

\* the distributed-key clients and POST /api/chat/:chatId/key requests; a user
\* acts once the previous events are handled
NextGrants ==
    \/ Quiet /\ \E u \in Users, v \in Users : StartChatA(u, v)
    \/ Quiet /\ \E u \in Users, r \in Rands : ResolveKey(u, r)
    \/ Quiet /\ \E u \in Users, v \in Users, r \in SendRands :
                   RequestChatKey(u, v, r)
    \/ \E u \in Users : ServerJoinChat(u)
    \/ \E u \in Users : ServerKeyExchange(u)
    \/ \E u \in Users : KeyReceived(u)
    \/ \E u \in Users : ServeMessages(u)
    \/ \E u \in Users : LoadMessagesDone(u)

SpecGrants == InitKeyEx /\ [][NextGrants]_vars

InitFresh == cx = CxOff /\ InitApp

SpecApp == InitFresh /\ [][NextApp]_vars

\* the account whose registration and logins are explored
AuthUsers == {"alice"}

NextAuth ==
    \/ \E u \in AuthUsers, pw \in Passwords, s \in Scalars, r \in Rands :
          Register(u, pw, s, r)
    \/ \E u \in AuthUsers, pw \in Passwords : Login(u, pw)
    \/ \E u \in AuthUsers, pw \in Passwords : LoginWithKey(u, pw)
    \/ \E u \in AuthUsers : Reload(u)
    \/ \E u \in AuthUsers : ClearLocalStorage(u)

InitAuth == cx = CxOff /\ InitApp

SpecAuth == InitAuth /\ [][NextAuth]_vars

\* new User({ username, publicKey }) as saved by POST /api/register of the
\* backend that takes no backup: the backup fields keep their schema defaults
UserDocNoBackup(u) ==
    [username |-> u,
     publicKey |-> generateKeyPair(RegisteredAs(u).s).publicKey,
     encryptedPrivateKey |-> Null, privateKeyNonce |-> Null, kdfSalt |-> Null,
     kdfParams |-> KdfParamsDefault]

\* both users were registered without a backup; each browser holds its secret
\* key and shows the login form
InitNoBackup ==
    /\ cx = CxOff
    /\ users = <<UserDocNoBackup("alice"), UserDocNoBackup("bob")>>
    /\ chats = <<>>
    /\ msgs = <<>>
    /\ rooms = [u \in Users |-> {}]
    /\ c2s = [u \in Users |-> <<>>]
    /\ s2c = [u \in Users |-> <<>>]
    /\ ls = [u \in Users |-> generateKeyPair(RegisteredAs(u).s).secretKey]
    /\ cl = [u \in Users |-> InitClient]
    /\ regd = [u \in Users |-> [pw |-> RegisteredAs(u).pw,
                                keyPair |-> generateKeyPair(RegisteredAs(u).s)]]
    /\ last = [u \in Users |-> [name |-> "reload"]]
    /\ sent = [u \in Users |-> <<>>]
    /\ wire = <<>>
    /\ made = [u \in Users |-> Null]

NextNoBackup ==
    \/ \E u \in Users, pw \in Passwords : Login(u, pw)
    \/ \E u \in Users, pw \in Passwords : LoginWithKey(u, pw)
    \/ \E u \in Users : Reload(u)
    \/ \E u \in Users : ClearLocalStorage(u)

SpecNoBackup == InitNoBackup /\ [][NextNoBackup]_vars

\* ========================================================================
\* Page walk: GET /api/chat/:chatId/messages followed by its nextCursor while
\* messages are being saved
\* ========================================================================
\* a send_message event of user u for chat chatId with send counter n
PendingSend(u, chatId, n) ==
    LET enc == encryptMessage(Txt("hello"),
                              deriveSharedKey(users[1].publicKey, ls["bob"]), n, 1)
    IN  [ev |-> "send_message", chatId |-> chatId,
         senderId |-> FindUserByName(u),
         encryptedContent |-> enc.encryptedContent, nonce |-> enc.nonce,
         messageCounter |-> n]

\* both users are registered; bob has emitted send_message events, for the
\* chat with alice (1) or another chat id (2), which the server has yet to
\* handle; no page has been requested
InitPagesApp ==
    /\ users = <<UserDoc(RegisterBody("alice", RegisteredAs("alice").pw,
                                      RegisteredAs("alice").s, RegisteredAs("alice").r)),
                 UserDoc(RegisterBody("bob", RegisteredAs("bob").pw,
                                      RegisteredAs("bob").s, RegisteredAs("bob").r))>>
    /\ chats = <<>>
    /\ msgs = <<>>
    /\ rooms = [u \in Users |-> {}]
    /\ ls = [u \in Users |-> generateKeyPair(RegisteredAs(u).s).secretKey]
    /\ \E ids \in [1..MaxPending -> {1, 2}] :
          c2s = [u \in Users |->
                   IF u = "bob"
                   THEN [k \in 1..MaxPending |-> PendingSend(u, ids[k], k - 1)]
                   ELSE <<>>]
    /\ s2c = [u \in Users |-> <<>>]
    /\ cl = [u \in Users |-> InitClient]
    /\ regd = [u \in Users |-> [pw |-> RegisteredAs(u).pw,
                                keyPair |-> generateKeyPair(RegisteredAs(u).s)]]
    /\ last = [u \in Users |-> [name |-> "register", pw |-> RegisteredAs(u).pw]]
    /\ sent = [u \in Users |-> <<>>]
    /\ wire = <<>>
    /\ made = [u \in Users |-> Null]

InitPages ==
    /\ cx = [pc |-> "init", chat |-> 0, first |-> {}, got |-> <<>>,
             cursor |-> Null, hasMore |-> FALSE, count |-> 0, grew |-> FALSE]
    /\ InitPagesApp

\* the _ids of a returned page, in the order returned
PageIds(res) == [k \in 1..Len(res.messages) |-> res.messages[k]._id]

\* initial request: GET /api/chat/:chatId/messages?limit=
PgFirst(chatId) ==
    /\ cx.pc = "init"
    /\ LET res == GetMessages(chatId, Query(String(PageLimit)), Null)
       IN  cx' = [cx EXCEPT !.pc = "walk", !.chat = chatId,
                    !.first = {i \in 1..Len(msgs) : msgs[i].chatId = chatId},
                    !.got = PageIds(res),
                    !.cursor = res.nextCursor, !.hasMore = res.hasMore,
                    !.count = Len(msgs)]
    /\ UNCHANGED appVars

\* load more: GET /api/chat/:chatId/messages?limit=&cursor=<nextCursor>,
\* repeated until hasMore is false
PgNext ==
    /\ cx.pc = "walk"
    /\ cx.hasMore
    /\ cx.cursor # Null
    /\ LET res == GetMessages(cx.chat, Query(String(PageLimit)), cx.cursor)
       IN  cx' = [cx EXCEPT !.got = @ \o PageIds(res),
                    !.cursor = res.nextCursor, !.hasMore = res.hasMore,
                    !.count = Len(msgs),
                    !.grew = @ \/ Len(msgs) > cx.count]
    /\ UNCHANGED appVars

NextPages ==
    \/ \E chatId \in {1, 2} : PgFirst(chatId)
    \/ PgNext
    \/ \E u \in Users : ServerSendMessage(u)

SpecPages == InitPages /\ [][NextPages]_vars

\* ========================================================================
\* The crypto functions applied to drawn inputs
\* ========================================================================
CxKeyA == generateKeyPair(cx.a)
CxKeyB == generateKeyPair(cx.b)
\* the key a message is encrypted under: derived (Strategy B) or random (A)
CxKey == IF cx.kind = "dh" THEN cx.kAB ELSE generateSharedKey(cx.kr)
CxKeys ==
    {cx.kAB, deriveSharedKey(CxKeyA.publicKey, CxKeyA.secretKey)}
    \cup {generateSharedKey(r) : r \in Rands}

InitCx ==
    cx \in [pc : {"init"}, a : Scalars, b : Scalars, kind : {Null}, kr : {Null},
            msg : {Null}, ctr : {Null}, pw : {Null},
            kAB : {Null}, kBA : {Null}, enc : {Null}, dec : {Null},
            tin : {Null}, tdec : {Null},
            salt : {Null}, art : {Null}, upw : {Null}, unwrapped : {Null},
            nctr : {Null}, nr : {Null}, nonce : {Null},
            bpw : {Null}, keyData : {Null}, rpw : {Null}, rec : {Null},
            scl : {Null}, sin : {Null}, sres : {Null}]

InitCrypto == InitCx /\ InitApp

\* both parties derive the shared key, each from its own view
CxDerive ==
    /\ cx.pc = "init"
    /\ cx' = [cx EXCEPT !.pc = "derived",
                !.kAB = deriveSharedKey(CxKeyB.publicKey, CxKeyA.secretKey),
                !.kBA = deriveSharedKey(CxKeyA.publicKey, CxKeyB.secretKey)]

CxEncrypt(kind, kr, msg, ctr, r) ==
    /\ cx.pc = "derived"
    /\ LET key == IF kind = "dh" THEN cx.kAB ELSE generateSharedKey(kr)
       IN  cx' = [cx EXCEPT !.pc = "encrypted", !.kind = kind, !.kr = kr,
                    !.msg = msg, !.ctr = ctr,
                    !.enc = encryptMessage(msg, key, ctr, r)]

CxDecrypt ==
    /\ cx.pc = "encrypted"
    /\ cx' = [cx EXCEPT !.pc = "decrypted", !.dec =
                decryptMessage(cx.enc.encryptedContent, cx.enc.nonce, CxKey)]

\* ways to change a produced ciphertext or nonce
FlipBits(text) ==
    IF text.t = "b64" /\ text.b.t = "sbox"
    THEN EncodeBase64([text.b EXCEPT !.x = 1])
    ELSE IF text.t = "b64" /\ text.b.t = "nonce"
    THEN EncodeBase64([text.b EXCEPT !.rand = RandomBytes(16, text.b.rand.v + 1)])
    ELSE text
BumpCounter(text) ==
    EncodeBase64([text.b EXCEPT !.ctr = CounterBytes(Num(cx.ctr + 1), NONCE_COUNTER_BYTES)])
Truncate(text) == text.b

CxCiphertexts ==
    IF cx.enc = Null THEN {}
    ELSE {cx.enc.encryptedContent, FlipBits(cx.enc.encryptedContent),
          Truncate(cx.enc.encryptedContent), cx.enc.nonce}
CxNonces ==
    IF cx.enc = Null THEN {}
    ELSE {cx.enc.nonce, FlipBits(cx.enc.nonce), BumpCounter(cx.enc.nonce),
          Truncate(cx.enc.nonce)}

CxTamper(c, n, k) ==
    /\ cx.pc = "encrypted"
    /\ <<c, n, k>> # <<cx.enc.encryptedContent, cx.enc.nonce, CxKey>>
    /\ cx' = [cx EXCEPT !.pc = "tampered", !.tin = [c |-> c, n |-> n, k |-> k],
                !.tdec = decryptMessage(c, n, k)]

\* register steps 2-3: salt, master key, wrapped secret key
CxWrap(pw, r1, r2) ==
    /\ cx.pc = "init"
    /\ LET kdfSalt == generateKdfSalt(r1)
           masterKey == deriveKeyFromPassword(pw, kdfSalt)
       IN  cx' = [cx EXCEPT !.pc = "wrapped", !.pw = pw,
                    !.salt = EncodeBase64(kdfSalt),
                    !.art = encryptPrivateKey(DecodeBase64(CxKeyA.secretKey),
                                              masterKey, r2)]

\* login recovery: re-derive the master key from the stored salt and unwrap
CxUnwrap(pw) ==
    /\ cx.pc = "wrapped"
    /\ LET masterKey == deriveKeyFromPassword(pw, DecodeBase64(cx.salt))
       IN  cx' = [cx EXCEPT !.pc = "unwrapped", !.upw = pw,
                    !.unwrapped = decryptPrivateKey(cx.art.encryptedPrivateKey,
                                                    cx.art.nonce, masterKey)]

\* Number.MAX_SAFE_INTEGER, 2^53 - 1
MaxSafeInteger == <<255, 255, 255, 255, 255, 255, 31>>

\* counters from 0 to 2^53 - 1: every digit at an end or next to an end of its
\* range
SafeCounters ==
    {m \o <<top>> : m \in [1..(Len(MaxSafeInteger) - 1) -> {0, 1, 255}],
                    top \in {0, MaxSafeInteger[Len(MaxSafeInteger)]}}

\* counters of 2^64 and above that a JavaScript number holds exactly (53
\* significant bits: the low 12 bits are zero)
OverflowCounters ==
    {<<0>> \o m \o <<1>> : m \in [1..(NONCE_COUNTER_BYTES - 1) -> {0, 16}]}

\* createNonce(counter) for a drawn counter and random part
CxNonce(counter, r) ==
    /\ cx.pc = "init"
    /\ cx' = [cx EXCEPT !.pc = "nonce", !.nctr = counter, !.nr = r,
                        !.nonce = createNonce(counter, r)]

\* kdfParams a stored backup may carry: the schema defaults, fewer iterations,
\* another hash
KdfParamsChoices ==
    {KdfParamsDefault,
     [KdfParamsDefault EXCEPT !.iterations = 100000],
     [KdfParamsDefault EXCEPT !.hash = "SHA-512"]}

\* a backup as POST /api/register stores it and GET
\* /api/user/:username/encrypted-key returns it: the secret key wrapped under
\* the master key derived with the kdfParams stored beside it
CxBackup(pw, params, r) ==
    /\ cx.pc = "init"
    /\ LET kdfSalt == generateKdfSalt(r)
           masterKey == Pbkdf2(DecodeUTF8(pw), kdfSalt, params.iterations,
                               params.hash)
           wrapped == encryptPrivateKey(DecodeBase64(CxKeyA.secretKey),
                                        masterKey, r)
       IN  cx' = [cx EXCEPT !.pc = "stored", !.bpw = pw,
                    !.keyData = [encryptedPrivateKey |-> wrapped.encryptedPrivateKey,
                                 privateKeyNonce |-> wrapped.nonce,
                                 kdfSalt |-> EncodeBase64(kdfSalt),
                                 kdfParams |-> params,
                                 publicKey |-> CxKeyA.publicKey]]

\* login recovery applied to the stored backup
CxRecover(pw) ==
    /\ cx.pc = "stored"
    /\ cx' = [cx EXCEPT !.pc = "recovered", !.rpw = pw,
                        !.rec = RecoverSecretKey(cx.keyData, pw)]

\* page states sendMessage can be called in: with or without a shared key (one
\* of them not 32 bytes long, as a grant may hold anything), with or without
\* a current chat
SendClients ==
    {[InitClient EXCEPT !.step = "chat", !.currentUser = [_id |-> 1],
                        !.sharedKey = k, !.currentChat = chat, !.counter = n] :
        k \in {Null, generateSharedKey(1), RandomBytes(16, 1)},
        chat \in {Null, [_id |-> 1]},
        n \in Counters}

\* text field contents: empty, whitespace only, a text, a text in whitespace
SendInputs ==
    {Input(lead, text, trail) :
        lead \in 0..1, text \in Plaintexts \cup {Txt("")}, trail \in 0..1}

\* sendMessage applied to a page state and a text field content
CxSend(c, messageInput, r) ==
    /\ cx.pc = "init"
    /\ cx' = [cx EXCEPT !.pc = "sent", !.scl = c, !.sin = messageInput,
                        !.sres = sendMessage(c, messageInput, r)]

NextCrypto ==
    \/ CxDerive
    \/ /\ cx.pc = "init"
       /\ \E c \in SendClients, messageInput \in SendInputs, r \in SendRands :
             CxSend(c, messageInput, r)
    \/ \E pw \in Passwords, params \in KdfParamsChoices, r \in Rands :
          CxBackup(pw, params, r)
    \/ \E pw \in Passwords : CxRecover(pw)
    \/ /\ cx.pc = "init"
       /\ \E counter \in SafeCounters \cup OverflowCounters, r \in Rands :
             CxNonce(counter, r)
    \/ \E kind \in {"dh", "rnd"}, kr \in Rands, msg \in Plaintexts,
          ctr \in Counters, r \in Rands : CxEncrypt(kind, kr, msg, ctr, r)
    \/ CxDecrypt
    \/ \E c \in CxCiphertexts, n \in CxNonces, k \in CxKeys : CxTamper(c, n, k)
    \/ \E pw \in Passwords, r1 \in Rands, r2 \in Rands : CxWrap(pw, r1, r2)
    \/ \E pw \in Passwords : CxUnwrap(pw)

SpecCrypto == InitCrypto /\ [][NextCrypto /\ UNCHANGED appVars]_vars

\* ------------------------------------------------------------------ claims

\* C3: agreement symmetry: deriveSharedKey(B.publicKey, A.secretKey) equals
\* deriveSharedKey(A.publicKey, B.secretKey) for all key pairs A and B.
C3_AgreementSymmetry ==
    cx.pc # "init" => /\ cx.kAB = cx.kBA
                      /\ ~IsErr(cx.kAB)
C3_Witness == cx.pc = "derived" /\ cx.a # cx.b /\ cx.kAB.t = "dhkey"

\* C4: message round trip: decryptMessage of the encryptedContent and nonce
\* that encryptMessage(P, K, c) returned, under the same K, returns P.
C4_MessageRoundTrip ==
    cx.pc = "decrypted" => cx.dec = cx.msg
C4_Witness == cx.pc = "decrypted" /\ cx.ctr > 0 /\ cx.kind = "rnd"

\* C5: decryptMessage with a changed ciphertext or nonce, or with another
\* key, fails with an error and returns no plaintext.
C5_TamperDetected ==
    cx.tin # Null => IsErr(cx.tdec)
C5_Witness ==
    /\ cx.tin # Null
    /\ cx.tin.c = FlipBits(cx.enc.encryptedContent)
    /\ cx.tin.n = cx.enc.nonce
    /\ cx.tin.k = CxKey
C5_WitnessWrongKey ==
    /\ cx.tin # Null
    /\ cx.tin.c = cx.enc.encryptedContent
    /\ cx.tin.n = cx.enc.nonce
    /\ cx.tin.k # CxKey

\* C6: unwrapping the backup with the master key derived from the password
\* it was wrapped with returns the original secret key bytes; with any other
\* password it fails with the wrong-password error and returns no key.
C6_BackupWrapUnwrap ==
    cx.upw # Null =>
        IF cx.upw = cx.pw
        THEN cx.unwrapped = DecodeBase64(CxKeyA.secretKey)
        ELSE cx.unwrapped = Err("Sai password - khong the giai ma private key")
C6_Witness == cx.upw # Null /\ cx.upw = cx.pw /\ cx.unwrapped.t = "sk"
C6_WitnessWrong == cx.upw # Null /\ cx.upw # cx.pw

\* ------------------------------------------------------------------------
\* C7  Wrong-password login is rejected: once a user has registered with a
\* password, a login attempt (login or loginWithKey) with a different password
\* reports "Sai password!" and does not log the user in: currentUser stays
\* unset, the step stays on the register/login form and no socket is connected.
IsLoginAttempt(u) ==
    /\ regd[u] # Null
    /\ last[u] # Null
    /\ last[u].name \in {"login", "loginWithKey"}

ReportsWrongPassword(u) ==
    cl[u].alert \in {"Sai password!", "Sai password! Khong the khoi phuc key."}

C7_WrongPasswordRejected ==
    \A u \in Users :
        (IsLoginAttempt(u) /\ last[u].pw # regd[u].pw)
        => /\ ReportsWrongPassword(u)
           /\ cl[u].currentUser = Null
           /\ cl[u].step = "register"
           /\ ~cl[u].socket

\* ------------------------------------------------------------------------
\* C8  Key recovery: after a user registers with password pw and the secret
\* key is removed from localStorage, a login with the same username and pw
\* restores in localStorage and in myKeyPairRef exactly the secret key
\* generated at registration, paired with the public key the server stores.
C8_KeyRecovery ==
    \A u \in Users :
        (IsLoginAttempt(u) /\ ~last[u].hadLocalKey /\ last[u].pw = regd[u].pw)
        => /\ ls[u] = regd[u].keyPair.secretKey
           /\ cl[u].myKeyPair =
                 [publicKey |-> users[FindUserByName(u)].publicKey,
                  secretKey |-> regd[u].keyPair.secretKey]
           /\ cl[u].currentUser # Null
           /\ cl[u].step = "users"

C8_Witness ==
    \E u \in Users :
        /\ IsLoginAttempt(u)
        /\ last[u].name = "login"
        /\ ~last[u].hadLocalKey
        /\ last[u].pw = regd[u].pw
        /\ ls[u] # Null
        /\ DecodeBase64(ls[u]).t = "sk"

\* ------------------------------------------------------------------------
\* History views used by the chat properties
\* the plaintext that was typed for the stored message i: the k-th message
\* stored for a sender is the k-th that sender sent
SentText(i) ==
    sent[NameOf(msgs[i].senderId)]
        [Cardinality({j \in 1..i : msgs[j].senderId = msgs[i].senderId})]

DisplayedIds(u) == [k \in 1..Len(cl[u].messages) |-> cl[u].messages[k].id]

\* the messages of user u in the order sent: those stored, then those emitted
\* and not yet stored; each with its counter and the key it is sealed under
CarriedBy(u) ==
    LET IsMine(m) == m.senderId = FindUserByName(u)
        IsSend(e) == e.ev = "send_message"
        all == SelectSeq(msgs, IsMine) \o SelectSeq(c2s[u], IsSend)
    IN  [k \in 1..Len(all) |->
            [counter |-> all[k].messageCounter,
             key |-> DecodeBase64(all[k].encryptedContent).k]]

\* ------------------------------------------------------------------------
\* C2  Derived-key chat end to end: every stored message that a participant
\* displays shows exactly the plaintext that was sent and its sender; a message
\* delivered live by receive_message is displayed, and after loadMessages the
\* messages of the loaded page are displayed in order - in both directions.
C2_EndToEnd ==
    \A u \in Users :
        /\ \A k \in 1..Len(cl[u].messages) :
              /\ cl[u].messages[k].id \in 1..Len(msgs)
              /\ cl[u].messages[k].text = SentText(cl[u].messages[k].id)
              /\ cl[u].messages[k].sender = NameOf(msgs[cl[u].messages[k].id].senderId)
        /\ last[u].name = "receive_message"
           => /\ cl[u].messages # <<>>
              /\ cl[u].messages[Len(cl[u].messages)].id = last[u].id
        /\ last[u].name = "loadMessages"
           => /\ Len(cl[u].messages) >= Len(last[u].page)
              /\ SubSeq(DisplayedIds(u), 1, Len(last[u].page)) = last[u].page

\* one user displays the partner's message received live while the partner
\* displays this user's message loaded from the history
C2_Witness ==
    \E u \in Users, v \in Users :
        /\ u # v
        /\ last[u].name = "receive_message"
        /\ msgs[last[u].id].senderId = FindUserByName(v)
        /\ cl[u].messages[Len(cl[u].messages)].text = SentText(last[u].id)
        /\ last[v].name = "loadMessages"
        /\ \E k \in 1..Len(cl[v].messages) :
              /\ cl[v].messages[k].sender = u
              /\ cl[v].messages[k].id \in {last[v].page[j] : j \in 1..Len(last[v].page)}

\* ------------------------------------------------------------------------
\* C10  Counter monotonicity: among the messages one sender has sealed under
\* one shared secret, taken in the order sent, the messageCounter strictly
\* increases - across sendMessage, reload and new session, startChat and
\* loadMessages.
C10_CounterMonotonic ==
    \A u \in Users :
        \A i \in 1..Len(CarriedBy(u)), j \in 1..Len(CarriedBy(u)) :
            (i < j /\ CarriedBy(u)[i].key = CarriedBy(u)[j].key)
            => CarriedBy(u)[i].counter < CarriedBy(u)[j].counter

\* ------------------------------------------------------------------------
\* the shared secret the server's stored grant gives user u for chat i (what
\* startChat recovers after the volatile state is lost), or an error
Recovered(u, i) ==
    LET keyRes == GetChatKey(i, FindUserByName(u))
    IN  IF ~keyRes.ok THEN Err("no key")
        ELSE decryptSharedKey(keyRes.data.encryptedSharedKey, keyRes.data.nonce,
                              users[keyRes.data.senderId].publicKey,
                              ls[u])

\* C1  Distributed shared key: for the chat between two users, the shared
\* secrets the two hold in memory are identical, and so are the shared secrets
\* they recover from their stored grants, after any interleaving of their
\* startChat calls and of the server's handling of their key_exchange events.
C1_SharedSecretAgreement ==
    \A u \in Users, v \in Users :
        /\ (/\ cl[u].sharedKey # Null
            /\ cl[v].sharedKey # Null
            /\ cl[u].currentChat = cl[v].currentChat)
           => cl[u].sharedKey = cl[v].sharedKey
        /\ \A i \in 1..Len(chats) :
              (/\ c2s[u] = <<>> /\ c2s[v] = <<>>
               /\ ~IsErr(Recovered(u, i))
               /\ ~IsErr(Recovered(v, i)))
              => Recovered(u, i) = Recovered(v, i)

\* ------------------------------------------------------------------------
\* what the server can read of a value it is given: base64 is transparent,
\* a sealed box is not
Readable(f) == IF f.t = "b64" THEN f.b ELSE f

\* a user's plaintext secret key, password, master key, shared secret or
\* message plaintext, raw or encoded
IsSecret(f) ==
    \/ Readable(f).t \in {"sk", "pw", "utf8", "txt", "mkey", "dhkey"}
    \/ \E u \in Users : cl[u].sharedKey # Null /\ Readable(f) = cl[u].sharedKey

\* public keys, wrapped keys, salts, nonces, encrypted grants, ciphertexts
IsPublicOrSealed(f) == Readable(f).t \in {"pk", "sbox", "rnd", "nonce"}

Blind(f) == IsPublicOrSealed(f) /\ ~IsSecret(f)

BlindEvent(e) ==
    /\ e.ev \in {"join_chat", "key_exchange", "send_message"}
    /\ e.ev = "key_exchange" => Blind(e.encryptedSharedKey) /\ Blind(e.nonce)
    /\ e.ev = "send_message" => Blind(e.encryptedContent) /\ Blind(e.nonce)

\* C9  Blind server: no stored record (users, chat grants, messages), no
\* request body and no socket event sent to the server contains a plaintext
\* secret key, password, master key, shared secret or message plaintext; it
\* holds only public keys, wrapped keys with salt and nonce, encrypted grants
\* and ciphertexts.
C9_BlindServer ==
    /\ \A i \in 1..Len(users) :
          /\ Blind(users[i].publicKey)
          /\ Blind(users[i].encryptedPrivateKey)
          /\ Blind(users[i].privateKeyNonce)
          /\ Blind(users[i].kdfSalt)
          /\ Readable(users[i].publicKey).t = "pk"
          /\ Readable(users[i].encryptedPrivateKey).t = "sbox"
    /\ \A i \in 1..Len(chats) : \A k \in 1..Len(chats[i].encryptedKeys) :
          /\ Blind(chats[i].encryptedKeys[k].encryptedSharedKey)
          /\ Blind(chats[i].encryptedKeys[k].nonce)
          /\ Readable(chats[i].encryptedKeys[k].encryptedSharedKey).t = "sbox"
    /\ \A i \in 1..Len(msgs) :
          /\ Blind(msgs[i].encryptedContent)
          /\ Blind(msgs[i].nonce)
          /\ Readable(msgs[i].encryptedContent).t = "sbox"
    /\ \A u \in Users : \A k \in 1..Len(c2s[u]) : BlindEvent(c2s[u][k])
    /\ \A k \in 1..Len(wire) : Blind(wire[k])

\* the server holds both users' backups, a grant and a message, a register
\* request has been sent and socket events are on their way to it
C9_Witness ==
    /\ Len(users) = 2
    /\ Len(wire) = 4
    /\ \E i \in 1..Len(chats) : Len(chats[i].encryptedKeys) > 0
    /\ Len(msgs) > 0
    /\ \E u \in Users : \E k \in 1..Len(c2s[u]) : c2s[u][k].ev = "send_message"

\* ------------------------------------------------------------------------
\* C11  Send counter frame: within one page session a sender's counter moves
\* only when that sender encrypts a message, and then by exactly one; loading
\* history and receiving a partner's message leave it alone (a reload, which
\* starts a new session with a new counter, is set aside).
C11_CounterFrame ==
    [][\A u \in Users :
          IF sent'[u] # sent[u]
          THEN cl'[u].counter = cl[u].counter + 1
          ELSE \/ cl'[u].counter = cl[u].counter
               \/ last'[u] = [name |-> "reload"] /\ cl'[u].counter = 0]_vars

\* ------------------------------------------------------------------------
\* the 8-byte big-endian encoding of a counter: byte k of n has the weight
\* BYTE^(n-k)
BigEndian(c, n) == [k \in 1..n |-> Digit(c, n + 1 - k)]

\* C12  Nonce layout: for a counter from 0 to 2^53 - 1, createNonce returns 24
\* bytes: the 16 bytes just drawn at random, then the 8-byte big-endian
\* encoding of the counter.
C12_NonceLayout ==
    (cx.pc = "nonce" /\ cx.nctr \in SafeCounters) =>
        /\ cx.nonce.t = "nonce"
        /\ cx.nonce.rand = RandomBytes(16, cx.nr)
        /\ cx.nonce.rand.len + Len(cx.nonce.ctr) = 24
        /\ cx.nonce.ctr = BigEndian(cx.nctr, NONCE_COUNTER_BYTES)

\* the nonce of the largest counter, 2^53 - 1: 00 1F FF FF FF FF FF FF
C12_Witness ==
    /\ cx.pc = "nonce"
    /\ cx.nctr = MaxSafeInteger
    /\ cx.nonce.ctr = <<0, 31, 255, 255, 255, 255, 255, 255>>

\* ------------------------------------------------------------------------
\* C13  Counter overflow: for a counter above 2^64 - 1, which 8 bytes cannot
\* hold, createNonce fails instead of returning a nonce.
C13_OverflowFailsLoudly ==
    (cx.pc = "nonce" /\ cx.nctr \in OverflowCounters) => IsErr(cx.nonce)

\* ------------------------------------------------------------------------
\* both key_exchange events of user u's createAndShareKey are stored in chat i:
\* the grant for the partner and the grant for u itself
CreatorGrantsStored(u, i) ==
    /\ made[u] # Null
    /\ \E k \in 1..Len(chats[i].encryptedKeys) :
          /\ chats[i].encryptedKeys[k].senderId = FindUserByName(u)
          /\ chats[i].encryptedKeys[k].recipientId = FindUserByName(u)
    /\ \E k \in 1..Len(chats[i].encryptedKeys) :
          /\ chats[i].encryptedKeys[k].senderId = FindUserByName(u)
          /\ chats[i].encryptedKeys[k].recipientId # FindUserByName(u)

C15_OneGrantPerRecipient ==
    \A i \in 1..Len(chats) :
        \A j \in 1..Len(chats[i].encryptedKeys),
           k \in 1..Len(chats[i].encryptedKeys) :
            chats[i].encryptedKeys[j].recipientId
              = chats[i].encryptedKeys[k].recipientId => j = k

\* ------------------------------------------------------------------------
\* C16  Recovery with the backup's own KDF parameters: for a stored backup
\* whose kdfParams differ from the defaults, recovery with the correct
\* password derives the master key with those parameters and returns the
\* secret key.
C16_StoredParamsHonoured ==
    (/\ cx.pc = "recovered"
     /\ cx.rpw = cx.bpw
     /\ cx.keyData.kdfParams # KdfParamsDefault)
    => cx.rec = CxKeyA.secretKey

C18_OneChatPerPair ==
    \A i \in 1..Len(chats), j \in 1..Len(chats) :
        {chats[i].participants[k] : k \in 1..Len(chats[i].participants)}
          = {chats[j].participants[k] : k \in 1..Len(chats[j].participants)}
        => i = j

\* ------------------------------------------------------------------------
\* C19  Immutable public key: no step - request or socket event, a register
\* request for an existing username included - removes a user record or changes
\* its username or publicKey, and no second record is stored for a username.
C19_PublicKeyImmutable ==
    [][/\ \A i \in 1..Len(users) :
             /\ i <= Len(users')
             /\ users'[i].username = users[i].username
             /\ users'[i].publicKey = users[i].publicKey
       /\ \A i \in 1..Len(users'), j \in 1..Len(users') :
             users'[i].username = users'[j].username => i = j]_vars

\* a register request for an existing username, carrying another public key,
\* has been rejected
C19_Witness ==
    \E u \in Users :
        /\ regd[u] # Null
        /\ last[u].name = "register"
        /\ cl[u].step = "register"
        /\ wire # <<>>
        /\ wire[1] # regd[u].keyPair.publicKey
        /\ users[FindUserByName(u)].publicKey = regd[u].keyPair.publicKey

\* ------------------------------------------------------------------------
\* C20  No backup is not an error: when a login has to fetch the backup (no
\* local key, or loginWithKey) and the server answers that there is none, the
\* login shows no error dialog and goes on with a fresh identity.
C20_NoBackupFreshIdentity ==
    \A u \in Users :
        (/\ IsLoginAttempt(u)
         /\ last[u].name = "loginWithKey" \/ ~last[u].hadLocalKey
         /\ GetUserByUsername(u).ok
         /\ ~GetEncryptedKey(u).ok)
        => /\ cl[u].alert = ""
           /\ cl[u].myKeyPair # Null

\* ------------------------------------------------------------------------
\* the page is refreshed while socket events it has emitted are still waiting
\* for their handlers on the server: state and refs are lost, the events stay
ClosePage(u) ==
    /\ c2s[u] # <<>>
    /\ cl[u].step = "chat"
    /\ cl' = [cl EXCEPT ![u] = InitClient]
    /\ rooms' = [rooms EXCEPT ![u] = {}]
    /\ s2c' = [s2c EXCEPT ![u] = <<>>]
    /\ last' = [last EXCEPT ![u] = [name |-> "reload"]]
    /\ UNCHANGED <<cx, users, chats, msgs, c2s, ls, regd, sent, wire, made>>

\* the distributed-key clients, a page being refreshed at any moment of the
\* chat; a user starts a chat when at most one event of the earlier session is
\* still to be handled and the other user's events have all been handled
NextFallback ==
    \/ \E u \in Users, v \in Users :
          /\ \A w \in Users : cl[w].pc \notin {"fetch", "resp"} /\ s2c[w] = <<>>
          /\ \A w \in Users \ {u} : c2s[w] = <<>>
          /\ Len(c2s[u]) <= 1
          /\ StartChatA(u, v)
    \/ \E u \in Users, r \in Rands : ResolveKey(u, r)
    \/ \E u \in Users : ServerJoinChat(u)
    \/ \E u \in Users : ServerKeyExchange(u)
    \/ \E u \in Users : KeyReceived(u)
    \/ \E u \in Users : ServeMessages(u)
    \/ \E u \in Users : LoadMessagesDone(u)
    \/ \E u \in Users : ClosePage(u)
    \/ \E u \in Users : Login(u, RegisteredAs(u).pw)
    \/ Quiet /\ \E u \in Users, v \in Users, r \in SendRands :
                   RequestChatKey(u, v, r)

SpecFallback == InitKeyEx /\ [][NextFallback]_vars

\* the key request of user u, about to be answered, falls back to a grant u
\* created for the partner
SenderFallback(u) ==
    /\ cl[u].pc = "key"
    /\ GetChatKey(cl[u].currentChat._id, cl[u].currentUser._id).ok
    /\ GetChatKey(cl[u].currentChat._id, cl[u].currentUser._id).data.isSender

\* C21  Sender fallback: when the key request is answered with a grant the
\* requester created for the partner (isSender true), startChat opens it with
\* the partner's public key and the requester's secret key and holds the
\* shared secret of that grant afterwards.
C21_SenderFallbackOpens ==
    [][\A u \in Users :
          (SenderFallback(u) /\ cl'[u].pc # "key" /\ last'[u].name = "resolveKey")
          => LET data == GetChatKey(cl[u].currentChat._id,
                                    cl[u].currentUser._id).data
                 opened == decryptSharedKey(data.encryptedSharedKey, data.nonce,
                                            cl[u].chatPartner.publicKey,
                                            cl[u].myKeyPair.secretKey)
             IN  /\ ~IsErr(opened)
                 /\ cl'[u].sharedKey = opened]_vars

\* ------------------------------------------------------------------------
\* C22  Key lookup order: GET /api/chat/:chatId/key/:userId answers with the
\* first stored grant addressed to userId and isSender false; if there is
\* none, with the first grant sent by userId and isSender true; with 404 if
\* there is neither or the chat does not exist; and never with a grant in
\* which userId is neither recipient nor sender.
C22_KeyLookupOrder ==
    \A chatId \in 1..(Len(chats) + 1), userId \in 1..(Len(users) + 1) :
        LET res == GetChatKey(chatId, userId)
        IN  IF chatId > Len(chats)
            THEN ~res.ok /\ res.status = 404
            ELSE LET keys == chats[chatId].encryptedKeys
                     toUser == {i \in DOMAIN keys : keys[i].recipientId = userId}
                     byUser == {i \in DOMAIN keys : keys[i].senderId = userId}
                 IN  /\ toUser # {} =>
                           \E i \in toUser :
                               /\ \A j \in toUser : i <= j
                               /\ res.ok
                               /\ res.data = keys[i] @@ [isSender |-> FALSE]
                     /\ (toUser = {} /\ byUser # {}) =>
                           \E i \in byUser :
                               /\ \A j \in byUser : i <= j
                               /\ res.ok
                               /\ res.data = keys[i] @@ [isSender |-> TRUE]
                     /\ (toUser = {} /\ byUser = {}) =>
                           ~res.ok /\ res.status = 404
                     /\ res.ok => \/ res.data.recipientId = userId
                                  \/ res.data.senderId = userId

\* a user's key request is about to be answered with the grant the user sent
\* to the partner, while the partner's request would get that same grant as its
\* recipient and an outsider's request 404
C22_Witness ==
    \E u \in Users : \E v \in Users \ {u} :
        /\ SenderFallback(u)
        /\ LET i == cl[u].currentChat._id
           IN  /\ GetChatKey(i, FindUserByName(v)).ok
               /\ ~GetChatKey(i, FindUserByName(v)).data.isSender
               /\ GetChatKey(i, FindUserByName(v)).data.senderId = FindUserByName(u)
               /\ ~GetChatKey(i, Len(users) + 1).ok
               /\ ~GetChatKey(i + 1, FindUserByName(u)).ok

\* a chat holds two grants for one recipient; the request of the recipient is
\* answered with the earlier one
C22_WitnessFirst ==
    \E i \in 1..Len(chats) : \E j, k \in DOMAIN chats[i].encryptedKeys :
        /\ j < k
        /\ chats[i].encryptedKeys[j].recipientId = chats[i].encryptedKeys[k].recipientId
        /\ chats[i].encryptedKeys[j] # chats[i].encryptedKeys[k]
        /\ GetChatKey(i, chats[i].encryptedKeys[j].recipientId).data
             = chats[i].encryptedKeys[j] @@ [isSender |-> FALSE]

\* ------------------------------------------------------------------------
\* user u has created the key of its current chat, which held no grant when
\* the key request was answered, and the server has handled both key_exchange
\* events of that creation
CreatedForEmptyChat(u) ==
    /\ last[u].name = "resolveKey"
    /\ last[u].created
    /\ last[u].grants = 0
    /\ \A k \in 1..Len(c2s[u]) : c2s[u][k].ev # "key_exchange"

\* C23  Grants of a creation: when a user has created the key for a chat that
\* had no grants and the server has handled both key_exchange events, the chat
\* holds exactly two grants, one for the partner and one for the creator, both
\* sent by the creator and both opening to the shared key that was generated.
C23_CreationStoresTwoGrants ==
    \A u \in Users :
        CreatedForEmptyChat(u) =>
            LET keys == chats[cl[u].currentChat._id].encryptedKeys
                me == cl[u].currentUser._id
                partner == cl[u].chatPartner._id
            IN  /\ Len(keys) = 2
                /\ \E k \in 1..Len(keys) : keys[k].recipientId = partner
                /\ \E k \in 1..Len(keys) : keys[k].recipientId = me
                /\ \A k \in 1..Len(keys) :
                      /\ keys[k].senderId = me
                      /\ decryptSharedKey(keys[k].encryptedSharedKey, keys[k].nonce,
                                          users[me].publicKey,
                                          ls[NameOf(keys[k].recipientId)]) = made[u]

\* ------------------------------------------------------------------------
\* the key request of user u, about to be answered, returns a grant that
\* u cannot open: the sender's public key is not available, or the box fails
\* authentication under the sender's public key and u's secret key
UnusableGrant(u) ==
    /\ cl[u].pc = "key"
    /\ LET keyRes == GetChatKey(cl[u].currentChat._id, cl[u].currentUser._id)
       IN  /\ keyRes.ok
           /\ \/ ~GetUserById(keyRes.data.senderId).ok
              \/ IsErr(decryptSharedKey(keyRes.data.encryptedSharedKey,
                                        keyRes.data.nonce,
                                        GetUserById(keyRes.data.senderId).data.publicKey,
                                        cl[u].myKeyPair.secretKey))

C25_RegeneratedKeyStored ==
    \A u \in Users :
        (/\ last[u].name = "resolveKey"
         /\ last[u].created
         /\ last[u].retrieved
         /\ \A k \in 1..Len(c2s[u]) : c2s[u][k].ev # "key_exchange")
        => /\ Recovered(u, cl[u].currentChat._id) = made[u]
           /\ Recovered(cl[u].chatPartner.username, cl[u].currentChat._id) = made[u]

\* ------------------------------------------------------------------------
\* C26  Counter changes only after encryption: a sendMessage call that returns
\* early (empty input, no shared key, no current chat) or whose encryption
\* throws leaves the counter as it was and emits nothing; a call that encrypts
\* emits one send_message whose messageCounter is the counter encoded in its
\* nonce, the value the counter had, and leaves the counter one higher.
C26_IncrementAfterEncrypt ==
    cx.pc = "sent" =>
        IF \/ cx.sin.text.v = ""
           \/ cx.scl.sharedKey = Null
           \/ cx.scl.currentChat = Null
           \/ ~(cx.scl.sharedKey.t = "rnd" /\ cx.scl.sharedKey.len = 32)
        THEN /\ cx.sres.counter = cx.scl.counter
             /\ cx.sres.emitted = <<>>
        ELSE /\ Len(cx.sres.emitted) = 1
             /\ cx.sres.emitted[1].ev = "send_message"
             /\ cx.sres.emitted[1].messageCounter = cx.scl.counter
             /\ DecodeBase64(cx.sres.emitted[1].nonce).ctr
                  = BigEndian(Num(cx.sres.emitted[1].messageCounter),
                              NONCE_COUNTER_BYTES)
             /\ decryptMessage(cx.sres.emitted[1].encryptedContent,
                               cx.sres.emitted[1].nonce, cx.scl.sharedKey)
                  = cx.sin.text
             /\ cx.sres.counter = cx.scl.counter + 1

\* a text in whitespace was sent with a counter above 0
C26_Witness ==
    /\ cx.pc = "sent"
    /\ cx.sin.lead > 0
    /\ cx.scl.counter > 0
    /\ Len(cx.sres.emitted) = 1
    /\ cx.sres.counter = cx.scl.counter + 1

\* encryptMessage threw on a key of the wrong length: nothing sent
C26_WitnessThrow ==
    /\ cx.pc = "sent"
    /\ cx.sin.text.v # ""
    /\ cx.scl.currentChat # Null
    /\ cx.scl.sharedKey = RandomBytes(16, 1)
    /\ cx.sres.emitted = <<>>
    /\ cx.sres.counter = cx.scl.counter

\* ------------------------------------------------------------------------
\* "<- Quay lai danh sach": onClick={() => setStep("users")}; the refs and the
\* rest of the state stay as they are
BackToUsers(u) ==
    /\ cl[u].step = "chat"
    /\ cl' = [cl EXCEPT ![u].step = "users"]
    /\ last' = [last EXCEPT ![u] = [name |-> "back"]]
    /\ UNCHANGED <<cx, users, chats, msgs, rooms, c2s, s2c, ls, regd, sent, wire, made>>

\* a third registered user, whose page is not open
Carol == "carol"

\* alice and bob are logged in, one session each; carol is registered
InitSessionApp ==
    /\ users = <<UserDoc(RegisterBody("alice", RegisteredAs("alice").pw,
                                      RegisteredAs("alice").s, RegisteredAs("alice").r)),
                 UserDoc(RegisterBody("bob", RegisteredAs("bob").pw,
                                      RegisteredAs("bob").s, RegisteredAs("bob").r)),
                 UserDoc(RegisterBody(Carol, Pw("abc123"), 2, MaxRand + 3))>>
    /\ chats = <<>>
    /\ msgs = <<>>
    /\ rooms = [u \in Users |-> {}]
    /\ c2s = [u \in Users |-> <<>>]
    /\ s2c = [u \in Users |-> <<>>]
    /\ ls = [u \in Users |-> generateKeyPair(RegisteredAs(u).s).secretKey]
    /\ cl = [u \in Users |->
               [InitClient EXCEPT
                   !.step = "users",
                   !.currentUser = PublicUser(RegisteredAs(u).id),
                   !.myKeyPair = generateKeyPair(RegisteredAs(u).s),
                   !.socket = TRUE]]
    /\ regd = [u \in Users |-> [pw |-> RegisteredAs(u).pw,
                                keyPair |-> generateKeyPair(RegisteredAs(u).s)]]
    /\ last = [u \in Users |-> [name |-> "register", pw |-> RegisteredAs(u).pw]]
    /\ sent = [u \in Users |-> <<>>]
    /\ wire = <<>>
    /\ made = [u \in Users |-> Null]

InitSession == cx = CxOff /\ InitSessionApp

\* one session of the derived-key client: alice chats with bob and with carol
\* in turn; a chat is opened or left when nothing is under way; her messages
\* are sent, received and loaded in any interleaving
NextTwoChats ==
    \/ \E v \in {"bob", Carol} : Quiet /\ StartChat("alice", v)
    \/ Quiet /\ BackToUsers("alice")
    \/ \E u \in Users : ServeMessages(u)
    \/ \E u \in Users : LoadMessagesDone(u)
    \/ \E u \in Users : LoadMoreMessages(u)
    \/ \E text \in Plaintexts, r \in SendRands : SendMessage("alice", text, r)
    \/ \E u \in Users : ServerJoinChat(u)
    \/ \E u \in Users : ServerSendMessage(u)
    \/ \E u \in Users : ReceiveMessage(u)

SpecTwoChats == InitSession /\ [][NextTwoChats]_vars

\* C27  Exclusive counter step: within one client session, whatever the
\* interleaving of sendMessage calls with receive_message callbacks and
\* loadMessages continuations, the messageCounter values of the messages a
\* client has sent are strictly increasing in the order sent, so no two of them
\* carry the same value.
C27_SessionCountersIncrease ==
    \A u \in Users :
        \A i \in 1..Len(CarriedBy(u)), j \in 1..Len(CarriedBy(u)) :
            i < j => CarriedBy(u)[i].counter < CarriedBy(u)[j].counter

\* a client has sent two messages and displays a message, received live or
\* loaded from the history
C27_Witness ==
    \E u \in Users :
        /\ Len(CarriedBy(u)) = 2
        /\ CarriedBy(u)[1].counter < CarriedBy(u)[2].counter
        /\ last[u].name = "sendMessage"
        /\ cl[u].messages # <<>>

\* ------------------------------------------------------------------------
\* C28  Counter per chat: the first message stored for a chat, sent when the
\* chat had no history, carries counter 0, whatever its sender has sent in
\* other chats during the session; sending in one chat or loading its history
\* leaves the counter used for another chat alone.
C28_CounterPerChat ==
    \A i \in 1..Len(msgs) :
        (\A j \in 1..(i - 1) : msgs[j].chatId # msgs[i].chatId)
        => msgs[i].messageCounter = 0

\* ------------------------------------------------------------------------
\* History pages and live messages given to a page that holds a shared key
\* ------------------------------------------------------------------------
\* operations applied to the page in one run
MaxSkipOps == 2

\* the key the page holds, and the key older messages were sealed under
SkipKey == generateSharedKey(1)
SkipOldKey == generateSharedKey(2)

\* the stored message with the given _id as the server returns it: sealed under
\* the page's key, sealed under the older key, or changed after sealing
SkipMessage(id, kind) ==
    LET enc == encryptMessage(IF id = 1 THEN Txt("hello") ELSE Txt("hi"),
                              IF kind = "old" THEN SkipOldKey ELSE SkipKey,
                              id - 1, id)
    IN  [_id |-> id, chatId |-> 1,
         senderId |-> [_id |-> 2, username |-> "bob"],
         encryptedContent |-> IF kind = "changed"
                              THEN FlipBits(enc.encryptedContent)
                              ELSE enc.encryptedContent,
         nonce |-> enc.nonce,
         messageCounter |-> id - 1]

SkipKinds == {"ok", "old", "changed"}

\* response pages: newest first, as GET messages returns them
SkipPages ==
    {<<>>}
    \cup {<<SkipMessage(id, k)>> : id \in {1, 2}, k \in SkipKinds}
    \cup {<<SkipMessage(2, k2), SkipMessage(1, k1)>> : k1 \in SkipKinds, k2 \in SkipKinds}

InitSkip ==
    /\ cx = [pc |-> "skip",
             c |-> [InitClient EXCEPT !.step = "chat", !.sharedKey = SkipKey,
                                      !.currentUser = [_id |-> 1],
                                      !.currentChat = [_id |-> 1]],
             hist |-> <<>>]
    /\ InitApp

\* loadMessages gets the page as its response
CxLoadPage(page, isLoadingMore) ==
    /\ Len(cx.hist) < MaxSkipOps
    /\ LET data == [messages |-> page, hasMore |-> FALSE, nextCursor |-> Null,
                    isLoadingMore |-> isLoadingMore]
           after == ShowPage(cx.c, data)
       IN  cx' = [cx EXCEPT !.c = after,
                    !.hist = Append(@, [op |-> "load", page |-> page,
                                        isLoadingMore |-> isLoadingMore,
                                        before |-> cx.c.messages,
                                        after |-> after.messages])]

\* the socket delivers the message live
CxReceive(message) ==
    /\ Len(cx.hist) < MaxSkipOps
    /\ LET after == receive_message(cx.c, message)
       IN  cx' = [cx EXCEPT !.c = after,
                    !.hist = Append(@, [op |-> "receive", message |-> message,
                                        before |-> cx.c.messages,
                                        after |-> after.messages])]

NextSkip ==
    \/ \E page \in SkipPages, isLoadingMore \in BOOLEAN :
          CxLoadPage(page, isLoadingMore)
    \/ \E id \in {1, 2}, kind \in SkipKinds : CxReceive(SkipMessage(id, kind))

SpecSkip == InitSkip /\ [][NextSkip /\ UNCHANGED appVars]_vars

\* the message opens under the page's key
SkipOpens(m) == ~IsErr(decryptMessage(m.encryptedContent, m.nonce, SkipKey))

\* what the page displays for a message that opens
SkipEntry(m) ==
    [text |-> decryptMessage(m.encryptedContent, m.nonce, SkipKey),
     sender |-> m.senderId.username, id |-> m._id]

\* the messages of a page that open, oldest first
SkipShown(page) ==
    LET asc == [k \in 1..Len(page) |-> page[Len(page) + 1 - k]]
        good == SelectSeq(asc, SkipOpens)
    IN  [k \in 1..Len(good) |-> SkipEntry(good[k])]

\* C29  Failing messages are skipped: loadMessages displays exactly the
\* messages of the page that decrypt under the current shared key, oldest
\* first (in front of the list when loading more), whatever fails before or
\* after them in the page; a live message that fails to decrypt leaves the
\* list as it was, and the operations after a failure are carried out as well.
C29_FailedDecryptSkipped ==
    \A n \in 1..Len(cx.hist) :
        LET h == cx.hist[n]
        IN  IF h.op = "load"
            THEN h.after = IF h.isLoadingMore
                           THEN SkipShown(h.page) \o h.before
                           ELSE SkipShown(h.page)
            ELSE h.after = IF SkipOpens(h.message)
                           THEN Append(h.before, SkipEntry(h.message))
                           ELSE h.before

\* a live message failed and left the list alone; the page loaded next starts
\* with a message that fails (the older one) and its newer message is shown
C29_Witness ==
    /\ Len(cx.hist) = 2
    /\ cx.hist[1].op = "receive"
    /\ cx.hist[1].after = cx.hist[1].before
    /\ cx.hist[2].op = "load"
    /\ Len(cx.hist[2].page) = 2
    /\ ~SkipOpens(cx.hist[2].page[2])
    /\ SkipOpens(cx.hist[2].page[1])
    /\ cx.hist[2].after = <<SkipEntry(cx.hist[2].page[1])>>

\* ------------------------------------------------------------------------
\* the backup of u is there and pw does not open it: decryptPrivateKey throws
UnwrapFails(u, pw) ==
    /\ GetEncryptedKey(u).ok
    /\ IsErr(RecoverSecretKey(GetEncryptedKey(u).data, pw))

\* login() in its recovery branch, or loginWithKey(), with such a password
FailedUnwrapStep(u, pw) ==
    /\ UnwrapFails(u, pw)
    /\ \/ GetUserByUsername(u).ok /\ ls[u] = Null /\ Login(u, pw)
       \/ LoginWithKey(u, pw)

\* C30  A failed unwrap leaves the client as it was: when decryptPrivateKey
\* throws in login's recovery branch or in loginWithKey, localStorage is not
\* written, myKeyPairRef and currentUser are not set, no socket is connected,
\* the step is unchanged (only the alert is shown), the backup on the server is
\* as it was, and the login form accepts another attempt.
C30_FailedUnwrapChangesNothing ==
    [][\A u \in AuthUsers, pw \in Passwords :
          FailedUnwrapStep(u, pw) =>
              /\ ls' = ls
              /\ rooms' = rooms
              /\ users' = users
              /\ cl'[u] = [cl[u] EXCEPT !.alert = cl'[u].alert]
              /\ cl'[u].myKeyPair = cl[u].myKeyPair
              /\ cl'[u].currentUser = cl[u].currentUser
              /\ cl'[u].socket = cl[u].socket
              /\ cl'[u].step = "register"
              /\ cl'[u].pc = "idle"
              /\ ~UnwrapFails(u, regd[u].pw)']_vars

\* login() has just failed to open the backup: no local key, still on the
\* login form, nothing set
C30_Witness ==
    \E u \in AuthUsers :
        /\ "name" \in DOMAIN last[u]
        /\ last[u].name = "login"
        /\ ~last[u].hadLocalKey
        /\ UnwrapFails(u, last[u].pw)
        /\ cl[u].alert = "Sai password! Khong the khoi phuc key."
        /\ ls[u] = Null
        /\ cl[u].myKeyPair = Null
        /\ cl[u].currentUser = Null
        /\ ~cl[u].socket
        /\ cl[u].step = "register"

\* loginWithKey() has just failed to open the backup while a key was in
\* localStorage: the stored key is still the one registered
C30_WitnessWithKey ==
    \E u \in AuthUsers :
        /\ "name" \in DOMAIN last[u]
        /\ last[u].name = "loginWithKey"
        /\ UnwrapFails(u, last[u].pw)
        /\ cl[u].alert = "Sai password!"
        /\ ls[u] = regd[u].keyPair.secretKey
        /\ cl[u].myKeyPair = Null
        /\ ~cl[u].socket
        /\ cl[u].step = "register"

\* ========================================================================
\* GET /api/chat/:chatId/messages asked with any limit and cursor while
\* messages are being saved
\* ========================================================================
\* the limit parameters asked: missing, and the strings below
LimitQueries ==
    {Null, Query(<<>>), Query(<<"0">>), Query(<<"1">>), Query(<<"2">>),
     Query(<<"3">>), Query(<<"2", "0">>), Query(<<"0", "2">>),
     Query(<<"a", "b">>), Query(<<" ", "1">>), Query(<<"2", "x">>),
     Query(<<"-", "1">>)}

\* the cursors asked: none, or the _id of a message that is or may be stored
ListCursors == {Null} \cup {[t |-> "id", v |-> i] : i \in 1..(MaxPending + 1)}

InitList ==
    /\ cx = [pc |-> "list", chat |-> 0, limit |-> Null, cursor |-> Null,
             n |-> 0, res |-> Null]
    /\ InitPagesApp

\* the request is answered from the messages stored at that moment; one
\* request is looked at in a run
CxList(chatId, limitParam, cursor) ==
    /\ cx.pc = "list"
    /\ cx' = [pc |-> "listed", chat |-> chatId, limit |-> limitParam,
              cursor |-> cursor, n |-> Len(msgs),
              res |-> GetMessages(chatId, limitParam, cursor)]
    /\ UNCHANGED appVars

NextList ==
    \/ \E chatId \in {1, 2}, limitParam \in LimitQueries, cursor \in ListCursors :
          CxList(chatId, limitParam, cursor)
    \/ \E u \in Users : cx.pc = "list" /\ ServerSendMessage(u)

SpecList == InitList /\ [][NextList]_vars

\* the _ids the answered request could return: stored when it was answered,
\* of its chat, below its cursor
ListMatching ==
    {i \in 1..cx.n : /\ msgs[i].chatId = cx.chat
                     /\ (cx.cursor # Null => i < cx.cursor.v)}

\* the limit in force for the answered request, for the limits the handler
\* is meant for: the number the parameter starts with when it is 1 or more, 20
\* when the parameter is missing, 0 or holds no number
ListLimit ==
    IF cx.limit = Null \/ parseInt(cx.limit) = NaN THEN 20
    ELSE IF parseInt(cx.limit).v = 0 THEN 20
    ELSE parseInt(cx.limit).v

\* C31  Message list: for every chat content, cursor and limit of 1 or more the
\* answer holds at most limit messages, all of the chat and with _id below the
\* cursor when one is given, newest first and without gaps from the newest
\* matching one; hasMore is true exactly when an older matching message exists
\* beyond those returned; nextCursor is the _id of the last returned message,
\* or null when none is returned; a missing, zero or non-numeric limit is
\* taken as 20.
C31_MessageList ==
    (cx.pc = "listed" /\ ListLimit >= 1) =>
        LET ids == PageIds(cx.res)
        IN  /\ Len(ids) <= ListLimit
            /\ \A k \in 1..Len(ids) : ids[k] \in ListMatching
            /\ \A j \in 1..Len(ids), k \in 1..Len(ids) : j < k => ids[j] > ids[k]
            /\ \A i \in ListMatching :
                  (\E k \in 1..Len(ids) : ids[k] = i)
                  \/ (Len(ids) = ListLimit /\ i < ids[Len(ids)])
            /\ cx.res.hasMore <=>
                  \E i \in ListMatching : \A k \in 1..Len(ids) : i < ids[k]
            /\ cx.res.nextCursor = IF Len(ids) = 0 THEN Null
                                   ELSE [t |-> "id", v |-> ids[Len(ids)]]
            /\ \A k \in 1..Len(ids) :
                  /\ cx.res.messages[k].chatId = cx.chat
                  /\ cx.res.messages[k].encryptedContent
                       = msgs[ids[k]].encryptedContent

\* a full page of two below a cursor, with an older message left over
C31_Witness ==
    /\ cx.pc = "listed"
    /\ cx.limit = Query(<<"2">>)
    /\ cx.cursor # Null
    /\ Len(cx.res.messages) = 2
    /\ cx.res.hasMore
    /\ cx.res.nextCursor = [t |-> "id", v |-> cx.res.messages[2]._id]

\* a request without a limit returned every message of the chat, more than
\* three, and no more are to come
C31_WitnessDefault ==
    /\ cx.pc = "listed"
    /\ cx.limit = Null
    /\ ListLimit = 20
    /\ Len(cx.res.messages) > 3
    /\ ~cx.res.hasMore

\* ========================================================================
\* startChat of the distributed-key client called again before an earlier call
\* has returned: each call keeps its partner and its chat, the page state and
\* the refs are shared
\* ========================================================================
\* the users alice can click in the user list
Partners == {"bob", Carol}

InitOverlap ==
    /\ cx = [pc |-> "calls",
             calls |-> [v \in Partners |-> [stage |-> "none", chat |-> Null]],
             resolved |-> {}]
    /\ InitSessionApp

\* startChat(partner) up to "await fetch(.../chat/create)"
CallStartChat(u, v) ==
    /\ cl[u].step = "users"
    /\ cx.calls[v].stage = "none"
    /\ cl' = [cl EXCEPT ![u].chatPartner = PublicUser(FindUserByName(v))]
    /\ cx' = [cx EXCEPT !.calls[v].stage = "create"]
    /\ last' = [last EXCEPT ![u] = [name |-> "startChat"]]
    /\ UNCHANGED <<users, chats, msgs, rooms, c2s, s2c, ls, regd, sent, wire, made>>

\* the create request is answered: setCurrentChat(chat), join_chat, up to
\* "await fetch(.../key/...)"
CallChatCreated(u, v) ==
    /\ cx.calls[v].stage = "create"
    /\ LET res == PostChatCreate(<<cl[u].currentUser._id, FindUserByName(v)>>)
       IN  /\ chats' = res.chats
           /\ c2s' = [c2s EXCEPT ![u] =
                         Append(@, [ev |-> "join_chat", chatId |-> res.chat._id])]
           /\ cl' = [cl EXCEPT ![u].currentChat = res.chat]
           /\ cx' = [cx EXCEPT !.calls[v] = [stage |-> "key", chat |-> res.chat]]
    /\ UNCHANGED <<users, msgs, rooms, s2c, ls, regd, last, sent, wire, made>>

\* the key request is answered: the stored key is opened or a new one created
\* and shared for the call's chat and partner; sharedKeyRef is set,
\* setStep("chat"), loadMessages
CallKeyResolved(u, v, r) ==
    /\ cx.calls[v].stage = "key"
    /\ LET mine == [cl[u] EXCEPT !.currentChat = cx.calls[v].chat,
                                 !.chatPartner = PublicUser(FindUserByName(v))]
           stored == OpenStoredKey(mine)
           created == createAndShareKey(mine, r)
           sharedKey == IF IsErr(stored) THEN created.sharedKey ELSE stored
       IN  /\ c2s' = [c2s EXCEPT ![u] =
                         IF IsErr(stored) THEN @ \o created.events ELSE @]
           /\ cl' = [cl EXCEPT ![u] =
                        BeginLoad([cl[u] EXCEPT !.sharedKey = sharedKey,
                                                !.nextCursor = Null,
                                                !.hasMore = FALSE,
                                                !.step = "chat"],
                                  Null, FALSE)]
           /\ cx' = [cx EXCEPT !.calls[v].stage = "done",
                               !.resolved = @ \cup {[chatId |-> cx.calls[v].chat._id,
                                                     key |-> sharedKey]}]
           /\ made' = IF IsErr(stored)
                      THEN [made EXCEPT ![u] = created.sharedKey] ELSE made
           /\ last' = [last EXCEPT ![u] =
                          [name |-> "resolveKey", created |-> IsErr(stored),
                           retrieved |-> GetChatKey(mine.currentChat._id,
                                                    mine.currentUser._id).ok,
                           grants |-> Len(chats[mine.currentChat._id].encryptedKeys)]]
    /\ UNCHANGED <<users, chats, msgs, rooms, s2c, ls, regd, sent, wire>>

NextOverlap ==
    \/ \E v \in Partners : CallStartChat("alice", v)
    \/ \E v \in Partners : CallChatCreated("alice", v)
    \/ \E v \in Partners, r \in Rands : CallKeyResolved("alice", v, r)
    \/ \E text \in Plaintexts, r \in SendRands : SendMessage("alice", text, r)
    \/ \E u \in Users : ServerJoinChat(u)
    \/ \E u \in Users : ServerKeyExchange(u)
    \/ \E u \in Users : KeyReceived(u)
    \/ \E u \in Users : ServerSendMessage(u)
    \/ \E u \in Users : ReceiveMessage(u)

SpecOverlap == InitOverlap /\ [][NextOverlap]_vars

\* the send_message events alice has emitted: those still on their way and
\* those the server has stored
OverlapEmitted ==
    {c2s["alice"][k] : k \in {j \in 1..Len(c2s["alice"]) :
                                c2s["alice"][j].ev = "send_message"}}
    \cup {msgs[i] : i \in 1..Len(msgs)}

\* C32  Key and chat belong together: whatever the interleaving of startChat
\* calls with sendMessage, every send_message a client has emitted for a chat
\* opens under a shared secret that one of its startChat calls resolved for
\* that chat.
C32_KeyMatchesChat ==
    cx.pc = "calls" =>
        \A m \in OverlapEmitted :
            \E rk \in cx.resolved :
                /\ rk.chatId = m.chatId
                /\ ~IsErr(decryptMessage(m.encryptedContent, m.nonce, rk.key))

\* ------------------------------------------------------------------------
\* the _ids of the messages user u has on display, in the order displayed
ShownIds(c) == [k \in 1..Len(c.messages) |-> c.messages[k].id]

\* C33  Displayed exactly once: while a chat stays open, whatever the
\* interleaving of live receive_message callbacks with the initial
\* loadMessages and with loadMoreMessages, no step leaves a message on display
\* twice and no step removes a message that was on display.
C33_DisplayedOnce ==
    [][\A u \in Users :
          (/\ cl[u].step = "chat"
           /\ cl'[u].step = "chat"
           /\ cl'[u].currentChat = cl[u].currentChat)
          => /\ \A j \in 1..Len(cl'[u].messages), k \in 1..Len(cl'[u].messages) :
                   j # k => ShownIds(cl'[u])[j] # ShownIds(cl'[u])[k]
             /\ \A k \in 1..Len(cl[u].messages) :
                   \E j \in 1..Len(cl'[u].messages) :
                       ShownIds(cl'[u])[j] = ShownIds(cl[u])[k]]_vars

\* ========================================================================
\* loadMessages given pages whose messages carry any counters
\* ========================================================================
\* the counters a stored message or the page state may hold
PageCounters == 0..(MaxCounter + 1)

\* a stored message with the given _id and messageCounter: sealed under the
\* page's key or under another one, sent by either user
CountedMessage(id, n, kind, senderId) ==
    LET enc == encryptMessage(Txt("hi"),
                              IF kind = "old" THEN SkipOldKey ELSE SkipKey, n, id)
    IN  [_id |-> id, chatId |-> 1,
         senderId |-> [_id |-> senderId,
                       username |-> IF senderId = 1 THEN "alice" ELSE "bob"],
         encryptedContent |-> enc.encryptedContent,
         nonce |-> enc.nonce,
         messageCounter |-> n]

CountedMessages(id) ==
    {CountedMessage(id, n, kind, senderId) :
        n \in PageCounters, kind \in {"ok", "old"}, senderId \in {1, 2}}

\* response pages of up to two messages, newest first
CountedPages ==
    {<<>>} \cup {<<m>> : m \in CountedMessages(1)}
    \cup {<<m2, m1>> : m2 \in CountedMessages(2), m1 \in CountedMessages(1)}

\* the page holds a key or none, and its send counter has any value
InitCount ==
    /\ \E n \in PageCounters, key \in {Null, SkipKey} :
          cx = [pc |-> "count",
                c |-> [InitClient EXCEPT !.step = "chat", !.sharedKey = key,
                                         !.counter = n,
                                         !.currentUser = [_id |-> 1],
                                         !.currentChat = [_id |-> 1]],
                page |-> <<>>, after |-> Null]
    /\ InitApp

\* loadMessages gets the page as its response
CxCountPage(page, isLoadingMore) ==
    /\ cx.pc = "count"
    /\ cx' = [cx EXCEPT !.pc = "counted", !.page = page,
                !.after = ShowPage(cx.c, [messages |-> page, hasMore |-> FALSE,
                                          nextCursor |-> Null,
                                          isLoadingMore |-> isLoadingMore])]

NextCount ==
    \E page \in CountedPages, isLoadingMore \in BOOLEAN :
        CxCountPage(page, isLoadingMore)

SpecCount == InitCount /\ [][NextCount /\ UNCHANGED appVars]_vars

\* C34  Counter after a load: loadMessages never lowers the send counter, and
\* when it completes the counter is strictly greater than the messageCounter
\* of every message of the page it loaded, whoever sent the message and
\* whether or not it could be decrypted.
C34_CounterAbovePage ==
    cx.pc = "counted" =>
        /\ cx.after.counter >= cx.c.counter
        /\ \A k \in 1..Len(cx.page) :
              cx.after.counter > cx.page[k].messageCounter

\* a page of two was loaded whose older message, sent by the other user and
\* not decryptable, carries the highest counter, above the page's own
C34_Witness ==
    /\ cx.pc = "counted"
    /\ Len(cx.page) = 2
    /\ cx.page[2].senderId._id = 2
    /\ IsErr(decryptMessage(cx.page[2].encryptedContent, cx.page[2].nonce, SkipKey))
    /\ cx.page[2].messageCounter > cx.page[1].messageCounter
    /\ cx.page[2].messageCounter > cx.c.counter
    /\ cx.after.counter = cx.page[2].messageCounter + 1
    /\ Len(cx.after.messages) = 1

\* the page state held the highest counter and kept it
C34_WitnessKept ==
    /\ cx.pc = "counted"
    /\ Len(cx.page) = 2
    /\ cx.c.counter > cx.page[1].messageCounter + 1
    /\ cx.c.counter > cx.page[2].messageCounter + 1
    /\ cx.after.counter = cx.c.counter

\* ========================================================================
\* The socket server given send_message events with and without the required
\* fields
\* ========================================================================
\* a send_message event of user u for the chat, with the field omit left out
\* ("" leaves none out)
RawSendEvent(u, chatId, n, omit) ==
    LET full == PendingSend(u, chatId, n)
    IN  [f \in (DOMAIN full) \ {omit} |-> full[f]]

\* fields a socket client leaves out of the event
Omitted == {"", "nonce", "messageCounter"}

\* socket.emit("join_chat", chatId) of a connected client
RawJoin(u, chatId) ==
    /\ rooms[u] = {}
    /\ c2s[u] = <<>>
    /\ c2s' = [c2s EXCEPT ![u] = <<[ev |-> "join_chat", chatId |-> chatId]>>]
    /\ last' = [last EXCEPT ![u] = [name |-> "join_chat"]]
    /\ UNCHANGED <<cx, users, chats, msgs, rooms, s2c, ls, cl, regd, sent, wire, made>>

\* socket.emit("send_message", data) of a connected client
RawSend(u, chatId, omit) ==
    /\ Len(sent[u]) < MaxMsgs
    /\ c2s' = [c2s EXCEPT ![u] =
                  Append(@, RawSendEvent(u, chatId, Len(sent[u]), omit))]
    /\ sent' = [sent EXCEPT ![u] =
                   Append(@, RawSendEvent(u, chatId, Len(sent[u]), omit))]
    /\ last' = [last EXCEPT ![u] = [name |-> "send_message"]]
    /\ UNCHANGED <<cx, users, chats, msgs, rooms, s2c, ls, cl, regd, wire, made>>

\* an "error" event reaches a client: no listener is registered for it
DropError(u) ==
    /\ s2c[u] # <<>>
    /\ Head(s2c[u]).ev = "error"
    /\ s2c' = [s2c EXCEPT ![u] = Tail(@)]
    /\ UNCHANGED <<cx, users, chats, msgs, rooms, c2s, ls, cl, regd, last, sent, wire, made>>

\* GET /api/chat/:chatId/messages asked by a client that has nothing on its
\* way to the server; the answer is kept
RawList(u, chatId) ==
    /\ c2s[u] = <<>>
    /\ last[u] # [name |-> "list", chatId |-> chatId,
                  res |-> GetMessages(chatId, Null, Null)]
    /\ last' = [last EXCEPT ![u] = [name |-> "list", chatId |-> chatId,
                                   res |-> GetMessages(chatId, Null, Null)]]
    /\ UNCHANGED <<cx, users, chats, msgs, rooms, c2s, s2c, ls, cl, regd, sent, wire, made>>

NextRelay ==
    \/ \E u \in Users, chatId \in {1, 2} : RawJoin(u, chatId)
    \/ \E chatId \in {1, 2} : RawList("alice", chatId)
    \/ \E chatId \in {1, 2}, omit \in Omitted : RawSend("bob", chatId, omit)
    \/ \E u \in Users : ServerJoinChat(u)
    \/ \E u \in Users : ServerSendMessage(u)
    \/ \E u \in Users : ReceiveMessage(u)
    \/ \E u \in Users : DropError(u)

SpecRelay == InitKeyEx /\ [][NextRelay]_vars

\* the events added to a queue by a step
AddedTo(before, after) ==
    IF Len(after) >= Len(before) /\ SubSeq(after, 1, Len(before)) = before
    THEN SubSeq(after, Len(before) + 1, Len(after))
    ELSE <<>>

\* C35  Persist before relay: every receive_message the server broadcasts is
\* the message it has just saved, sent once to each socket in the chat's room;
\* when the save fails nothing is stored, nothing is broadcast and one error
\* event goes to the sending socket and to no other.
C35_PersistBeforeRelay ==
    [][\A u \in Users :
          (/\ c2s[u] # <<>>
           /\ Head(c2s[u]).ev = "send_message"
           /\ c2s'[u] = Tail(c2s[u]))
          => LET data == Head(c2s[u])
             IN  IF \E f \in MessageFields : f \notin DOMAIN data
                 THEN /\ msgs' = msgs
                      /\ AddedTo(s2c[u], s2c'[u])
                           = <<[ev |-> "error",
                                message |-> "Message validation failed"]>>
                      /\ \A v \in Users \ {u} : s2c'[v] = s2c[v]
                 ELSE /\ Len(msgs') = Len(msgs) + 1
                      /\ \A v \in Users :
                            LET added == AddedTo(s2c[v], s2c'[v])
                            IN  /\ Len(s2c'[v]) = Len(s2c[v]) + Len(added)
                                /\ Len(added) = IF data.chatId \in rooms[v]
                                                THEN 1 ELSE 0
                                /\ \A k \in 1..Len(added) :
                                      /\ added[k].ev = "receive_message"
                                      /\ added[k].message._id = Len(msgs')
                                      /\ added[k].message.encryptedContent
                                           = msgs'[Len(msgs')].encryptedContent
                                      /\ added[k].message.chatId
                                           = msgs'[Len(msgs')].chatId]_vars

\* bob has emitted two messages for chat 1, both handled: one was saved and
\* relayed to alice in the room, the other was rejected and only bob got an
\* error
C35_Witness ==
    /\ Len(sent["bob"]) = 2
    /\ c2s["bob"] = <<>>
    /\ Len(msgs) = 1
    /\ 1 \in rooms["alice"]
    /\ \E k \in 1..Len(s2c["alice"]) :
          /\ s2c["alice"][k].ev = "receive_message"
          /\ s2c["alice"][k].message._id = 1
    /\ \A k \in 1..Len(s2c["alice"]) : s2c["alice"][k].ev # "error"
    /\ \E k \in 1..Len(s2c["bob"]) : s2c["bob"][k].ev = "error"

\* ========================================================================
\* POST /api/chat/create called with any participantIds
\* ========================================================================
\* the request bodies: no id, one id, three ids, and every pair of ids of
\* registered users, repeats included
CreateBodies ==
    {<<>>, <<1>>, <<1, 2, 3>>} \cup {<<a, b>> : a \in 1..3, b \in 1..3}

InitCreateAny ==
    /\ cx = [pc |-> "create", req |-> <<>>, res |-> Null]
    /\ InitSessionApp

\* the handler from request to answer
CxChatCreate(participantIds) ==
    /\ LET res == PostChatCreate(participantIds)
       IN  /\ chats' = res.chats
           /\ cx' = [pc |-> "created", req |-> participantIds,
                     res |-> [f \in (DOMAIN res) \ {"chats"} |-> res[f]]]
    /\ UNCHANGED <<users, msgs, rooms, c2s, s2c, ls, cl, regd, last, sent, wire, made>>

NextCreateAny == \E participantIds \in CreateBodies : CxChatCreate(participantIds)

SpecCreateAny == InitCreateAny /\ [][NextCreateAny]_vars

\* C36  Create-or-get answers: POST /api/chat/create answers 400 unless
\* participantIds has exactly two entries; otherwise the chat it returns, found
\* or new, has exactly the two requested users as participants - so a request
\* naming one user twice never returns that user's chat with someone else.
C36_ChatOfRequestedUsers ==
    cx.pc = "created" =>
        IF Len(cx.req) # 2
        THEN ~cx.res.ok /\ cx.res.status = 400
        ELSE /\ cx.res.ok
             /\ Len(cx.res.chat.participants) = 2
             /\ {cx.res.chat.participants[k] : k \in 1..2}
                  = {cx.req[k] : k \in 1..2}

\* ------------------------------------------------------------------------
\* the send_message events of bob that carry every required field, in the
\* order emitted
AcceptedEvents ==
    LET Complete(e) == \A f \in MessageFields : f \in DOMAIN e
    IN  SelectSeq(sent["bob"], Complete)

\* the message, as broadcast or listed, carries what the event with its _id
\* carried
SameAsEvent(m) ==
    /\ m._id \in 1..Len(AcceptedEvents)
    /\ LET e == AcceptedEvents[m._id]
       IN  /\ m.encryptedContent = e.encryptedContent
           /\ m.nonce = e.nonce
           /\ m.messageCounter = e.messageCounter
           /\ m.chatId = e.chatId
           /\ m.senderId._id = e.senderId

\* what is stored, queued as receive_message or held as a list answer carries
\* what the events carried
StoredAsReceived ==
    /\ Len(msgs) <= Len(AcceptedEvents)
    /\ \A i \in 1..Len(msgs) :
          msgs[i] = [f \in MessageFields |-> AcceptedEvents[i][f]]
    /\ \A u \in Users : \A k \in 1..Len(s2c[u]) :
          s2c[u][k].ev = "receive_message" => SameAsEvent(s2c[u][k].message)
    /\ \A u \in Users :
          ("name" \in DOMAIN last[u] /\ last[u].name = "list")
          => \A k \in 1..Len(last[u].res.messages) :
                /\ SameAsEvent(last[u].res.messages[k])
                /\ last[u].res.messages[k].chatId = last[u].chatId

\* C37  Relay unchanged: the encryptedContent, nonce, messageCounter, chatId
\* and senderId of every message the server stores, broadcasts as
\* receive_message or returns from the message list are those of the
\* send_message event it received, and no step modifies a stored message.
C37_RelayedUnchanged ==
    [][/\ StoredAsReceived'
       /\ \A i \in 1..Len(msgs) : i <= Len(msgs') /\ msgs'[i] = msgs[i]]_vars

\* two messages of one chat are stored; alice has the live copy of one in her
\* queue and a list answer holding both
C37_Witness ==
    /\ Len(msgs) = 2
    /\ \E k \in 1..Len(s2c["alice"]) : s2c["alice"][k].ev = "receive_message"
    /\ last["alice"].name = "list"
    /\ Len(last["alice"].res.messages) = 2
    /\ last["alice"].res.messages[1].nonce # last["alice"].res.messages[2].nonce

====
